---- MODULE Spec2Model ----
(***************************************************************************)
(* Model of the Codex MCP streaming HTTP bridge: the child supervisor, the *)
(* JSON-RPC client, the stream registry / correlator, the event            *)
(* normaliser, the delta coalescer and the per-request stream lifecycle    *)
(* (src/src/codex/CodexMcpBridge.ts, src/src/app.ts).                      *)
(*                                                                         *)
(* Text is a sequence of characters.  Fixed pieces of text the program     *)
(* builds (the bridge-error prefix, the pieces of an exit message) are     *)
(* single tokens of that sequence.                                         *)
(***************************************************************************)
EXTENDS Integers, Sequences, FiniteSets, TLC

\* ------------------------------------------------------------------ bounds
MaxSteps == 4           \* handlers run (requests, timers, stdout lines, exits)
MaxEvents == 2          \* codex/event notifications read from stdout
MaxKeepalives == 1      \* keepalive ticks over all streams
MaxRestarts == 1        \* child exits
MaxDirectCalls == 2     \* direct completeStream calls (SpecApi)
MaxUpstreamLen == 3     \* length of the upstream text (SpecCoalesce)
MaxSupervisorRestarts == 10 \* child exits (SpecSupervisor)
MaxTypedEvents == 1     \* notifications read from stdout (SpecTypes)
MaxChunkChars == 4      \* largest streamChunkChars (SpecChunks)
MaxLines == 2           \* lines the child writes to its stdout (SpecFraming)
MaxChunkLen == 9        \* bytes in one data chunk (SpecFraming)

\* ------------------------------------------------------- program constants
maxChars == 256000      \* appendEmittedText: window of emittedText
BackoffStepMs == 1000
BackoffCapMs == 8000

\* --------------------------------------------------------------- universes
RIDs == {"r1", "r2"}                \* requestIds (crypto.randomUUID)
AliasIds == {"x"}                   \* ids chosen by the upstream
PlainIds == {"p1"}                  \* JSON-RPC ids of the non-streaming requests
QueryIds == {"q1"}                  \* other HTTP requests
HttpIds == PlainIds \cup QueryIds
RpcIds == RIDs \cup PlainIds
NoId == "<undefined>"               \* an absent / non-string / blank id field
NoText == <<"<undefined>">>         \* an absent (non-string) text field
EmptyText == <<>>

Min(a, b) == IF a <= b THEN a ELSE b

SetMax(S) == CHOOSE m \in S : \A n \in S : n <= m

\* JS String.prototype.slice(from) and slice(-k)
Slice(s, from) == SubSeq(s, from + 1, Len(s))

SliceLast(s, k) == SubSeq(s, Len(s) - k + 1, Len(s))

endsWith(s, t) == Len(t) <= Len(s) /\ SliceLast(s, Len(t)) = t

startsWith(s, t) == Len(t) <= Len(s) /\ SubSeq(s, 1, Len(t)) = t

\* a text field used in a JS condition: absent and "" are both falsy
Truthy(t) == t # NoText /\ t # EmptyText

RECURSIVE Concat(_)
Concat(ss) == IF ss = <<>> THEN <<>> ELSE Head(ss) \o Concat(Tail(ss))


\* ------------------------------------------------------------ chunkString
RECURSIVE chunkFrom(_, _, _)
chunkFrom(text, chunkSize, i) ==
  IF i >= Len(text) THEN <<>>
  ELSE <<SubSeq(text, i + 1, Min(i + chunkSize, Len(text)))>>
         \o chunkFrom(text, chunkSize, i + chunkSize)

\* faulty variant: the text after the first chunk is lost
chunkString_firstChunkOnly(text, chunkSize) ==
  IF chunkSize <= 0 THEN <<text>> ELSE <<SubSeq(text, 1, Min(chunkSize, Len(text)))>>

\* faulty variant: every chunk is one character too long
chunkString_oneTooLong(text, chunkSize) ==
  IF chunkSize <= 0 THEN <<text>> ELSE chunkFrom(text, chunkSize + 1, 0)

chunkString(text, chunkSize) ==
  IF chunkSize <= 0 THEN <<text>> ELSE chunkFrom(text, chunkSize, 0)

\* ---------------------------------------------------------- DeltaCoalescer
\* faulty variant: the overlap search stops at the smallest overlap
coalesceTextDelta_smallestOverlap(emitted, incomingText) ==
  IF incomingText = EmptyText THEN EmptyText
  ELSE IF endsWith(emitted, incomingText) THEN EmptyText
  ELSE IF startsWith(incomingText, emitted) THEN Slice(incomingText, Len(emitted))
  ELSE LET max == Min(Len(emitted), Len(incomingText))
           ks == {k \in 1..max : SliceLast(emitted, k) = SubSeq(incomingText, 1, k)}
       IN IF ks # {} THEN Slice(incomingText, CHOOSE k \in ks : \A n \in ks : k <= n)
          ELSE incomingText

coalesceTextDelta(emitted, incomingText) ==
  IF incomingText = EmptyText THEN EmptyText
  ELSE IF endsWith(emitted, incomingText) THEN EmptyText
  ELSE IF startsWith(incomingText, emitted) THEN Slice(incomingText, Len(emitted))
  ELSE LET max == Min(Len(emitted), Len(incomingText))
           ks == {k \in 1..max : SliceLast(emitted, k) = SubSeq(incomingText, 1, k)}
       IN IF ks # {} THEN Slice(incomingText, SetMax(ks)) ELSE incomingText

\* A block token stands for a run of BlockChars characters whose first
\* character occurs nowhere else in it, so that two texts made of tokens can
\* only overlap on whole tokens.  Every other token counts one character.
BlockTokens == {"A", "B"}

BlockChars == maxChars \div 2

charLen(c) == IF c \in BlockTokens THEN BlockChars ELSE 1

\* String.prototype.length
RECURSIVE length(_)
length(s) == IF s = <<>> THEN 0 ELSE charLen(Head(s)) + length(Tail(s))

\* s.slice(n): the text without its first n characters.  What is left of a
\* block that is cut in two is the token "<cut>", which matches no other text.
RECURSIVE sliceChars(_, _)
sliceChars(s, n) ==
  IF n <= 0 \/ s = <<>> THEN s
  ELSE IF charLen(Head(s)) <= n THEN sliceChars(Tail(s), n - charLen(Head(s)))
  ELSE <<"<cut>">> \o Tail(s)

\* faulty variant: the emitted text is put in front of emittedText
appendEmittedText_inFront(emittedText, appended) ==
  IF appended = EmptyText THEN emittedText
  ELSE LET next == appended \o emittedText
       IN IF length(next) > maxChars THEN sliceChars(next, length(next) - maxChars) ELSE next

appendEmittedText(emittedText, appended) ==
  IF appended = EmptyText THEN emittedText
  ELSE LET next == emittedText \o appended
       IN IF length(next) > maxChars THEN sliceChars(next, length(next) - maxChars) ELSE next

\* ------------------------------------------------------------------- state
VARIABLES
  proc,            \* CodexMcpBridge.proc: "running", "null", "stdinClosed" (the child
                   \* lives, proc.stdin.writable is false) or "failed" (the handle
                   \* of a child that could not be spawned; its stdin is destroyed)
  restarts,        \* CodexMcpBridge.restarts
  respawnTimer,    \* delay (ms) of the scheduled start(), 0 when none is scheduled
  pending,         \* CodexMcpBridge.pending: the ids that have a PendingRpc
  rpcTimer,        \* PendingRpc.timeout of each id: "unset", "armed", "cleared", "fired"
  future,          \* the promise returned by toolsCallStreaming, and its then/catch
  streams,         \* the ActiveStream object created by each streaming request
  activeStreams,   \* CodexMcpBridge.activeStreams: the registered requestIds
  streamAliases,   \* CodexMcpBridge.streamAliases: aliasId -> requestId (NoId: no entry)
  streamChunkChars,\* CodexBridgeOptions.streamChunkChars
  clock,           \* codex/event notifications read so far; the value of Date.now()
  used,            \* keepalive ticks and direct completeStream calls so far
  steps,           \* handlers run so far
  calls,           \* history: completeStream calls made for each requestId
  learned,         \* history: the alias ids each stream has had in the alias table
  upstream,        \* history: the text the child is producing for each request,
                   \* and the notification it sent last for it
  http,            \* the HTTP response of each non-streaming request
  stdout,          \* the child's stdout: the bytes in the pipe, CodexMcpBridge.buffer,
                   \* and history: the bytes read and the messages decoded so far
  env,             \* process.env: API_KEY, API_KEY_HEADER, REQUIRE_BEARER
  children         \* history: the child processes that live, the start() timers
                   \* that are pending, whether start() ran beside a live child,
                   \* the bytes of the complete lines the latest child wrote, and
                   \* whether it has begun a line it has not ended

vars == <<proc, restarts, respawnTimer, pending, rpcTimer, future, streams,
          activeStreams, streamAliases, streamChunkChars, clock, used,
          steps, calls, learned, upstream, http, stdout, env, children>>

IdValues == RIDs \cup AliasIds

\* ------------------------------------------------------------- SSE frames
\* sseSend(res, chunk): one chat.completion.chunk frame.  id, created and
\* model are constant per stream and left out.  src is history: which code
\* path produced the content ("role", "delta", "error", "final", "finish").
Frame(kind, role, content, finish, src) ==
  [kind |-> kind, role |-> role, content |-> content, finish_reason |-> finish, src |-> src]

ContentChunk(content, src) == Frame("chunk", "", content, "null", src)

RoleChunk == Frame("chunk", "assistant", NoText, "null", "role")

FinishChunk(reason) == Frame("chunk", "", NoText, reason, "finish")

DoneFrame == Frame("done", "", NoText, "", "")

ConnectedComment == Frame("comment", "", <<": connected">>, "", "")

KeepaliveComment == Frame("comment", "", <<": keepalive">>, "", "")

sseSend(res, frame) == [res EXCEPT !.writes = Append(@, frame)]

sseDone(res) == [res EXCEPT !.writes = Append(@, DoneFrame), !.ended = TRUE]

NewRes == [writes |-> <<>>, ended |-> FALSE]

NoStream ==
  [started |-> FALSE, closed |-> FALSE, done |-> FALSE, keepalive |-> "none",
   hardTimeout |-> "unset", lastEventAt |-> 0, emittedText |-> EmptyText,
   hasStreamedDelta |-> FALSE, res |-> NewRes, resClosed |-> FALSE]

\* the bridge-side state the stream operations read and write
Bridge ==
  [streams |-> streams, active |-> activeStreams, aliases |-> streamAliases, calls |-> calls]

SetBridge(B) ==
  /\ streams' = B.streams
  /\ activeStreams' = B.active
  /\ streamAliases' = B.aliases
  /\ calls' = B.calls
  /\ learned' = [r \in RIDs |-> learned[r] \cup {a \in AliasIds : B.aliases[a] = r}]

BridgeErrorText(errorText) == <<"\n[bridge error] ">> \o errorText \o <<"\n">>

RECURSIVE contentFrames(_, _)
contentFrames(chunks, src) ==
  IF chunks = <<>> THEN <<>>
  ELSE (IF Head(chunks) = EmptyText THEN <<>> ELSE <<ContentChunk(Head(chunks), src)>>)
         \o contentFrames(Tail(chunks), src)

\* the sendContent closure of completeStream, and the chunk loop of handleCodexEvent
sendContent(stream, content, src) ==
  IF stream.closed \/ stream.done THEN stream
  ELSE [stream EXCEPT !.res.writes =
          @ \o contentFrames(chunkString(content, streamChunkChars), src)]

\* faulty variant: the aliases of every stream are removed
purgeAliases_all(aliases, requestId) == [a \in DOMAIN aliases |-> NoId]

\* faulty variant: the aliases of the stream stay in the table
purgeAliases_none(aliases, requestId) == aliases

\* the alias purge of unregisterStream and completeStream
purgeAliases(aliases, requestId) ==
  [a \in IdValues |-> IF aliases[a] = requestId THEN NoId ELSE aliases[a]]

registerStream(B, requestId) == [B EXCEPT !.active = @ \cup {requestId}]

\* faulty variant: the aliases are purged, the stream stays in the map
unregisterStream_keepsStream(B, requestId) ==
  [B EXCEPT !.aliases = purgeAliases(@, requestId)]

unregisterStream(B, requestId) ==
  [B EXCEPT !.active = @ \ {requestId},
            !.aliases = purgeAliases(@, requestId)]

ClearTimer(t) == IF t = "armed" THEN "cleared" ELSE t

\* faulty variant: the interval keeps running
ClearKeepalive_leavesOn(k) == k

ClearKeepalive(k) == IF k = "on" THEN "cleared" ELSE k

NoOpts == [finalText |-> NoText, errorText |-> NoText, finishReason |-> "stop"]

ErrorOpts(errorText) == [NoOpts EXCEPT !.errorText = errorText]

FinalOpts(finalText) == [NoOpts EXCEPT !.finalText = finalText]

\* faulty variant: completeStream does not check whether the stream is still active
completeStreamReturnsEarly_never(B, requestId) == FALSE

\* line 223: nothing to do for an unknown, closed or done stream
completeStreamReturnsEarly(B, requestId) ==
  \/ requestId \notin B.active
  \/ B.streams[requestId].closed
  \/ B.streams[requestId].done

\* faulty variant: the final text is sent whether or not deltas were streamed
sendsFinalText_ignoresDeltas(stream, opts) == Truthy(opts.finalText)

\* lines 247-251: the final text is sent only if no delta was streamed
sendsFinalText(stream, opts) == Truthy(opts.finalText) /\ ~stream.hasStreamedDelta

\* faulty variant: the keepalive interval is not cleared on completion
markDone_keepsKeepalive(stream) ==
  [stream EXCEPT !.done = TRUE, !.hardTimeout = ClearTimer(@)]

\* faulty variant: the hard timeout is not cancelled on completion
markDone_keepsHardTimeout(stream) ==
  [stream EXCEPT !.done = TRUE, !.keepalive = ClearKeepalive(@)]

\* lines 253-255
markDone(stream) ==
  [stream EXCEPT !.done = TRUE,
                 !.keepalive = ClearKeepalive(@),
                 !.hardTimeout = ClearTimer(@)]

completeStream(B0, requestId, opts) ==
  LET B == [B0 EXCEPT !.calls[requestId] = @ + 1]
  IN
  IF completeStreamReturnsEarly(B, requestId) THEN B
  ELSE LET s0 == B.streams[requestId]
           s1 == IF Truthy(opts.errorText)
                 THEN sendContent(s0, BridgeErrorText(opts.errorText), "error") ELSE s0
           s2 == IF sendsFinalText(s1, opts)
                 THEN sendContent(s1, opts.finalText, "final") ELSE s1
           s3 == markDone(s2)
           s4 == [s3 EXCEPT !.res = sseDone(sseSend(@, FinishChunk(opts.finishReason)))]
       IN [B EXCEPT !.streams[requestId] = s4,
                    !.active = @ \ {requestId},
                    !.aliases = purgeAliases(@, requestId)]

\* faulty variant: the chunk of failAllStreams carries no finish_reason
failStream_noFinishReason(stream, reason) ==
  IF stream.done \/ stream.closed THEN stream
  ELSE [stream EXCEPT
          !.res = sseDone(sseSend(@, Frame("chunk", "", BridgeErrorText(reason), "null", "error"))),
          !.keepalive = ClearKeepalive(@),
          !.hardTimeout = ClearTimer(@),
          !.closed = TRUE,
          !.done = TRUE]

\* failAllStreams: one chunk carrying the error and finish_reason "stop", then [DONE]
failStream(stream, reason) ==
  IF stream.done \/ stream.closed THEN stream
  ELSE [stream EXCEPT
          !.res = sseDone(sseSend(@, Frame("chunk", "", BridgeErrorText(reason), "stop", "error"))),
          !.keepalive = ClearKeepalive(@),
          !.hardTimeout = ClearTimer(@),
          !.closed = TRUE,
          !.done = TRUE]

\* faulty variant: failAllStreams leaves the alias table alone
failAllStreams_keepsAliases(B, reason) ==
  [B EXCEPT !.streams = [r \in RIDs |-> IF r \in B.active THEN failStream(@[r], reason)
                                         ELSE @[r]],
            !.active = {r \in @ : B.streams[r].done \/ B.streams[r].closed}]

failAllStreams(B, reason) ==
  [B EXCEPT !.streams = [r \in RIDs |-> IF r \in B.active THEN failStream(@[r], reason)
                                         ELSE @[r]],
            !.active = {r \in @ : B.streams[r].done \/ B.streams[r].closed},
            !.aliases = [a \in IdValues |-> NoId]]

\* ---------------------------------------------------------- EventNormalizer
\* msg.type is a sequence of word tokens and separator characters
IsBlank(c) == c = " "

\* faulty variant: "-" is not a separator
IsDotSpaceDash_noDash(c) == c \in {".", " "}

IsDotSpaceDash(c) == c \in {".", " ", "-"}

toLowerCase(c) ==
  CASE c = "Response" -> "response"
    [] c = "Completed" -> "completed"
    [] c = "Delta" -> "delta"
    [] c = "Failed" -> "failed"
    [] c = "Text" -> "text"
    [] c = "Message" -> "message"
    [] c = "Item" -> "item"
    [] c = "Agent" -> "agent"
    [] c = "Output" -> "output"
    [] OTHER -> c

RECURSIVE trimStart(_)
trimStart(s) == IF s # <<>> /\ IsBlank(Head(s)) THEN trimStart(Tail(s)) ELSE s

RECURSIVE trimEnd(_)
trimEnd(s) ==
  IF s # <<>> /\ IsBlank(s[Len(s)]) THEN trimEnd(SubSeq(s, 1, Len(s) - 1)) ELSE s

trim(s) == trimEnd(trimStart(s))

\* .replace(/[.\s-]+/g, "_")
RECURSIVE replaceSeparators(_)
replaceSeparators(s) ==
  IF s = <<>> THEN <<>>
  ELSE IF IsDotSpaceDash(Head(s))
       THEN IF Len(s) > 1 /\ IsDotSpaceDash(s[2])
            THEN replaceSeparators(Tail(s))
            ELSE <<"_">> \o replaceSeparators(Tail(s))
       ELSE <<Head(s)>> \o replaceSeparators(Tail(s))

\* .replace(/_+/g, "_")
RECURSIVE collapseUnderscores(_)
collapseUnderscores(s) ==
  IF s = <<>> THEN <<>>
  ELSE IF Head(s) = "_" /\ Len(s) > 1 /\ s[2] = "_"
       THEN collapseUnderscores(Tail(s))
       ELSE <<Head(s)>> \o collapseUnderscores(Tail(s))

canonicalizeEventType(type) ==
  LET raw == IF type = NoText THEN <<>> ELSE type
      trimmed == trim(raw)
  IN collapseUnderscores(replaceSeparators([i \in 1..Len(trimmed) |-> toLowerCase(trimmed[i])]))

streamableTextDeltaTypes ==
  { <<"content", "_", "delta">>,
    <<"output", "_", "text", "_", "delta">>,
    <<"assistant", "_", "content", "_", "delta">>,
    <<"final", "_", "content", "_", "delta">>,
    <<"reasoning", "_", "content", "_", "delta">>,
    <<"agent", "_", "reasoning", "_", "delta">>,
    <<"text", "_", "delta">>,
    <<"response", "_", "output", "_", "text", "_", "delta">>,
    <<"response", "_", "reasoning", "_", "text", "_", "delta">> }

terminalTypes ==
  { <<"response", "_", "completed">>,
    <<"response", "_", "incomplete">>,
    <<"response", "_", "failed">> }

\* canonType.endsWith("_" + word) and canonType.startsWith(word + "_")
endsWithWord(canonType, word) == endsWith(canonType, <<"_", word>>)

startsWithWord(canonType, word) == startsWith(canonType, <<word, "_">>)

\* /(^|_)(text|content)(_|$)/
looksLikeTextDeltaType(canonType) ==
  /\ endsWithWord(canonType, "delta")
  /\ \E i \in 1..Len(canonType) :
       /\ canonType[i] \in {"text", "content"}
       /\ (i = 1 \/ canonType[i - 1] = "_")
       /\ (i = Len(canonType) \/ canonType[i + 1] = "_")

\* faulty variant: only the three listed types are terminal
isTerminalType_listedOnly(canonType) == canonType \in terminalTypes

isTerminalType(canonType) ==
  \/ canonType \in terminalTypes
  \/ /\ startsWithWord(canonType, "response")
     /\ \/ endsWithWord(canonType, "completed")
        \/ endsWithWord(canonType, "incomplete")
        \/ endsWithWord(canonType, "failed")

\* msg.delta, msg.text and msg.part.text are a string or absent (NoText);
\* msg.parts is the sequence of the p.text of its elements (<<>> when it is
\* no array), NoText standing for an element whose text is no string
extractDeltaText(msg) ==
  IF msg.delta # NoText THEN msg.delta
  ELSE IF msg.text # NoText THEN msg.text
  ELSE IF msg.part_text # NoText THEN msg.part_text
  ELSE LET texts == SelectSeq([i \in 1..Len(msg.parts) |->
                                 IF msg.parts[i] = NoText THEN EmptyText ELSE msg.parts[i]],
                              LAMBDA t : Len(t) > 0)
       IN IF Len(texts) > 0 THEN Concat(texts) ELSE EmptyText

\* faulty variant: msg.message is not looked at
extractErrorTextFromMsg_ignoresMessage(canonType, msg) ==
  IF Truthy(msg.error_message) THEN msg.error_message
  ELSE IF Truthy(msg.error) THEN msg.error
  ELSE IF endsWithWord(canonType, "failed") THEN <<"upstream response failed">>
  ELSE IF endsWithWord(canonType, "incomplete") THEN <<"upstream response incomplete">>
  ELSE EmptyText

\* faulty variant: the default of the type goes before msg.message, and
\* msg.message is the error text of any other type
extractErrorTextFromMsg_defaultFirst(canonType, msg) ==
  IF Truthy(msg.error_message) THEN msg.error_message
  ELSE IF Truthy(msg.error) THEN msg.error
  ELSE IF endsWithWord(canonType, "failed") THEN <<"upstream response failed">>
  ELSE IF endsWithWord(canonType, "incomplete") THEN <<"upstream response incomplete">>
  ELSE IF Truthy(msg.message) THEN msg.message
  ELSE EmptyText

\* msg.error is a string, an object (error_message is its message, when that
\* is a string) or absent; msg.message is a string or absent
extractErrorTextFromMsg(canonType, msg) ==
  IF Truthy(msg.error_message) THEN msg.error_message
  ELSE IF Truthy(msg.error) THEN msg.error
  ELSE IF endsWithWord(canonType, "failed") \/ endsWithWord(canonType, "incomplete")
       THEN IF Truthy(trim(msg.message)) /\ msg.message # NoText THEN msg.message
            ELSE IF endsWithWord(canonType, "failed") THEN <<"upstream response failed">>
            ELSE <<"upstream response incomplete">>
       ELSE EmptyText

NormEvent(kind, text) == [kind |-> kind, text |-> text]

\* faulty variant: the error event goes before the text-delta event
normalizeCodexEvent_errorFirst(params) ==
  LET msg == params.msg
      canonType == canonicalizeEventType(msg.type)
      deltaText == extractDeltaText(msg)
      errorText == extractErrorTextFromMsg(canonType, msg)
  IN (IF errorText # EmptyText THEN <<NormEvent("error", errorText)>> ELSE <<>>)
     \o (IF deltaText # EmptyText
            /\ (canonType \in streamableTextDeltaTypes \/ looksLikeTextDeltaType(canonType))
         THEN <<NormEvent("text-delta", deltaText)>> ELSE <<>>)
     \o (IF isTerminalType(canonType) THEN <<NormEvent("done", EmptyText)>> ELSE <<>>)

normalizeCodexEvent(params) ==
  LET msg == params.msg
      canonType == canonicalizeEventType(msg.type)
      deltaText == extractDeltaText(msg)
      errorText == extractErrorTextFromMsg(canonType, msg)
  IN (IF deltaText # EmptyText
         /\ (canonType \in streamableTextDeltaTypes \/ looksLikeTextDeltaType(canonType))
      THEN <<NormEvent("text-delta", deltaText)>> ELSE <<>>)
     \o (IF errorText # EmptyText THEN <<NormEvent("error", errorText)>> ELSE <<>>)
     \o (IF isTerminalType(canonType) THEN <<NormEvent("done", EmptyText)>> ELSE <<>>)

\* ------------------------------------------------- StreamRegistry, Correlator
\* the id fields of params, in the order extractCandidateIds reads them
\* (of the ten fields the model carries _meta.requestId, id and response_id)
IdFields(params) == <<params.meta_requestId, params.id, params.response_id>>

\* faulty variant: the stream's own requestId is recorded as its alias
addStreamAlias_selfAlias(aliases, requestId, candidate) ==
  IF candidate = NoId THEN aliases
  ELSE IF aliases[candidate] = NoId THEN [aliases EXCEPT ![candidate] = requestId]
  ELSE aliases

\* faulty variant: a colliding alias is overwritten
addStreamAlias_lastWins(aliases, requestId, candidate) ==
  IF candidate = NoId THEN aliases
  ELSE IF candidate = requestId THEN aliases
  ELSE [aliases EXCEPT ![candidate] = requestId]

addStreamAlias(aliases, requestId, candidate) ==
  IF candidate = NoId THEN aliases
  ELSE IF candidate = requestId THEN aliases
  ELSE IF aliases[candidate] = NoId THEN [aliases EXCEPT ![candidate] = requestId]
  ELSE aliases

RECURSIVE addStreamAliases(_, _, _)
addStreamAliases(aliases, requestId, candidates) ==
  IF candidates = <<>> THEN aliases
  ELSE addStreamAliases(addStreamAlias(aliases, requestId, Head(candidates)),
                        requestId, Tail(candidates))

InSeq(x, s) == \E i \in 1..Len(s) : s[i] = x

\* faulty variant: the alias target of a field is pushed before the field
RECURSIVE candidateIdsFrom_aliasFirst(_, _, _)
candidateIdsFrom_aliasFirst(aliases, candidates, out) ==
  IF candidates = <<>> THEN out
  ELSE LET v == Head(candidates)
       IN IF v = NoId \/ InSeq(v, out)
          THEN candidateIdsFrom_aliasFirst(aliases, Tail(candidates), out)
          ELSE LET aliased == aliases[v]
                   out1 == IF aliased # NoId /\ ~InSeq(aliased, out)
                           THEN Append(out, aliased) ELSE out
                   out2 == IF InSeq(v, out1) THEN out1 ELSE Append(out1, v)
               IN candidateIdsFrom_aliasFirst(aliases, Tail(candidates), out2)

RECURSIVE candidateIdsFrom(_, _, _)
candidateIdsFrom(aliases, candidates, out) ==
  IF candidates = <<>> THEN out
  ELSE LET v == Head(candidates)
       IN IF v = NoId \/ InSeq(v, out)
          THEN candidateIdsFrom(aliases, Tail(candidates), out)
          ELSE LET aliased == aliases[v]
                   out1 == Append(out, v)
                   out2 == IF aliased # NoId /\ ~InSeq(aliased, out1)
                           THEN Append(out1, aliased) ELSE out1
               IN candidateIdsFrom(aliases, Tail(candidates), out2)

extractCandidateIds(B, params) == candidateIdsFrom(B.aliases, IdFields(params), <<>>)

\* faulty variant: the fallback is taken whenever some stream is active
fallsBack_anyActive(active) == Cardinality(active) >= 1

\* line 409: the sole-active-stream fallback
fallsBack(active) == Cardinality(active) = 1

NoResolved == [requestId |-> NoId, usedFallback |-> FALSE]

resolveStreamForEvent(B, params) ==
  LET cands == extractCandidateIds(B, params)
      hits == {i \in 1..Len(cands) : cands[i] \in B.active}
  IN IF hits # {}
     THEN [requestId |-> cands[CHOOSE i \in hits : \A j \in hits : i <= j],
           usedFallback |-> FALSE]
     ELSE IF fallsBack(B.active)
          THEN [requestId |-> CHOOSE r \in B.active : TRUE, usedFallback |-> TRUE]
          ELSE NoResolved

\* lines 587-605: one text-delta event
applyTextDelta(stream, text) ==
  LET toEmit == coalesceTextDelta(stream.emittedText, text)
  IN IF toEmit = EmptyText THEN stream
     ELSE sendContent([stream EXCEPT !.hasStreamedDelta = TRUE,
                                     !.emittedText = appendEmittedText(@, toEmit)],
                      toEmit, "delta")

\* lines 584-617: the loop over the normalized events
RECURSIVE processEvents(_, _, _)
processEvents(B, requestId, evs) ==
  IF evs = <<>> THEN B
  ELSE IF B.streams[requestId].closed \/ B.streams[requestId].done THEN B
  ELSE LET ev == Head(evs)
       IN CASE ev.kind = "text-delta" ->
                 processEvents([B EXCEPT !.streams[requestId] = applyTextDelta(@, ev.text)],
                               requestId, Tail(evs))
            [] ev.kind = "error" -> completeStream(B, requestId, ErrorOpts(ev.text))
            [] OTHER -> completeStream(B, requestId, NoOpts)

handleCodexEvent(B, params, now) ==
  LET resolved == resolveStreamForEvent(B, params)
      requestId == resolved.requestId
  IN IF requestId = NoId THEN B
     ELSE IF B.streams[requestId].closed \/ B.streams[requestId].done THEN B
     ELSE LET B1 == [B EXCEPT !.streams[requestId].lastEventAt = now,
                              !.aliases = addStreamAliases(@, requestId, IdFields(params))]
          IN processEvents(B1, requestId, normalizeCodexEvent(params))

\* ------------------------------------------------------------ the RPC client
NoResult == [content |-> <<>>, str |-> NoText]

TextPart(text) == [type |-> "text", text |-> text]

\* tools/call results the child can answer with
Results == { [content |-> <<TextPart(<<"f", "g", "h">>)>>, str |-> NoText],
             NoResult }

extractTextFromToolResult(result) ==
  LET texts == SelectSeq(result.content, LAMBDA p : p.type = "text" /\ p.text # NoText)
  IN IF texts # <<>> THEN Concat([i \in 1..Len(texts) |-> texts[i].text])
     ELSE IF result.str # NoText THEN result.str
     ELSE <<"JSON.stringify(result)">>

NoError == [message |-> NoText]

ResponseErrors == { [message |-> <<"upstream error">>] }

ExitStatuses == { [code |-> "1", signal |-> "null"], [code |-> "null", signal |-> "SIGKILL"] }

ExitMessage(st) == <<"codex exited code=", st.code, " signal=", st.signal>>

\* faulty variant: the message does not name the method
TimeoutMessage_noMethod(id) == <<"RPC timeout">>

\* rpc (line 175) and toolsCallStreaming (line 200); the method is tools/call
TimeoutMessage(id) ==
  IF id \in PlainIds THEN <<"RPC timeout for ", "tools/call">>
  ELSE <<"RPC timeout for ", "tools/call", " (requestId=", id, ")">>

NotRunningMessage == <<"codex mcp-server not running">>

NoFuture ==
  [state |-> "none", result |-> NoResult, error |-> NoError, settles |-> 0, handled |-> FALSE]

\* PendingRpc.resolve / PendingRpc.reject: a promise keeps its first settlement
resolveFuture(f, result) ==
  [f EXCEPT !.settles = @ + 1,
            !.state = IF f.state = "pending" THEN "resolved" ELSE @,
            !.result = IF f.state = "pending" THEN result ELSE @]

rejectFuture(f, err) ==
  [f EXCEPT !.settles = @ + 1,
            !.state = IF f.state = "pending" THEN "rejected" ELSE @,
            !.error = IF f.state = "pending" THEN err ELSE @]

\* faulty variant: proc.stdin.writable is not looked at
ensureRunning_procOnly == proc \in {"running", "stdinClosed", "failed"}

\* lines 160-164: !this.proc || !this.proc.stdin.writable
ensureRunning == proc = "running"

\* the ids of the requests written to the child's stdin
SentIds == {id \in RIDs : rpcTimer[id] # "unset"}

\* the HTTP response of a non-streaming request: none yet, 200 with the
\* completion text, or 502 with the error message
NoHttp == [status |-> 0, text |-> NoText]

HttpOk(text) == [status |-> 200, text |-> text]

HttpBadGateway(message) == [status |-> 502, text |-> message]

\* ------------------------------------------- codex/event notifications
Msg(type, delta, message) ==
  [type |-> type, delta |-> delta, message |-> message, error |-> NoText,
   error_message |-> NoText, text |-> NoText, part_text |-> NoText, parts |-> <<>>]

\* a msg with its text in any of the shapes extractDeltaText reads
ShapedMsg(type, delta, text, partText, parts) ==
  [Msg(type, delta, NoText) EXCEPT !.text = text, !.part_text = partText, !.parts = parts]

\* a msg with an error field: error is msg.error when that is a string,
\* error_message is msg.error.message when msg.error is an object
ErrorMsg(type, error, errorMessage, message) ==
  [Msg(type, NoText, message) EXCEPT !.error = error, !.error_message = errorMessage]

Params(metaRequestId, id, responseId, msg) ==
  [meta_requestId |-> metaRequestId, id |-> id, response_id |-> responseId, msg |-> msg]

\* no notification yet
NoEvent == Params(NoId, NoId, NoId, Msg(NoText, NoText, NoText))

\* http/auth.ts lines 3-5; by default API_KEY is "", the header is
\* "authorization" and REQUIRE_BEARER is off
Env(apiKey, apiKeyHeader, requireBearer) ==
  [API_KEY |-> apiKey, API_KEY_HEADER |-> apiKeyHeader, REQUIRE_BEARER |-> requireBearer]

DefaultEnv == Env(EmptyText, "authorization", FALSE)

\* nothing written by the child, nothing read
NoStdout == [pipe |-> <<>>, buffer |-> <<>>, read |-> <<>>, decoded |-> <<>>, lines |-> 0]

\* ------------------------------------------------------------------- Init
StreamChunkCharsOptions == {2}

MoveKinds == {"keepalive", "direct"}

Use(kind) == used' = [used EXCEPT ![kind] = @ + 1]

Step == steps < MaxSteps /\ steps' = steps + 1

InitWith(streamChunkCharsOptions, envOptions) ==
  /\ proc = "running"
  /\ restarts = 0
  /\ respawnTimer = 0
  /\ pending = {}
  /\ rpcTimer = [id \in RpcIds |-> "unset"]
  /\ future = [id \in RpcIds |-> NoFuture]
  /\ streams = [r \in RIDs |-> NoStream]
  /\ activeStreams = {}
  /\ streamAliases = [a \in IdValues |-> NoId]
  /\ streamChunkChars \in streamChunkCharsOptions
  /\ clock = 0
  /\ used = [k \in MoveKinds |-> 0]
  /\ steps = 0
  /\ calls = [r \in RIDs |-> 0]
  /\ learned = [r \in RIDs |-> {}]
  /\ upstream = [r \in RIDs |-> [text |-> EmptyText, sent |-> 0, last |-> EmptyText,
                                  event |-> NoEvent]]
  /\ http = [p \in HttpIds |-> NoHttp]
  /\ stdout = NoStdout
  /\ env \in envOptions
  /\ children = [live |-> 1, timers |-> 0, overlapped |-> FALSE,
                 wrote |-> <<>>, midLine |-> FALSE]

Init == InitWith(StreamChunkCharsOptions, {DefaultEnv})

\* -------------------------------------------------- the tools/call promise
\* lines 236, 251, 256, 260 of app.ts: the callers' own check
\* faulty variant: the callers always find the stream ended
callerSkips_always(stream) == TRUE

callerSkips(stream) == stream.done \/ stream.closed

\* the then / catch callbacks of the handler, for a settled future
settledCallback(B, r, fut) ==
  IF callerSkips(B.streams[r]) THEN B
  ELSE IF fut.state = "resolved"
       THEN completeStream(B, r, FinalOpts(extractTextFromToolResult(fut.result)))
       ELSE completeStream(B, r, ErrorOpts(fut.error.message))

Unhandled(futs) == {r \in RpcIds : futs[r].state \in {"resolved", "rejected"} /\ ~futs[r].handled}

\* app.ts lines 167-192: the continuation of `await codex.rpc(...)`
plainCallback(fut) ==
  IF fut.state = "resolved" THEN HttpOk(extractTextFromToolResult(fut.result))
  ELSE HttpBadGateway(fut.error.message)

httpAfter(futs) ==
  [p \in HttpIds |-> IF p \in Unhandled(futs) THEN plainCallback(futs[p]) ELSE http[p]]

RECURSIVE runCallbacks(_, _, _)
runCallbacks(B, futs, rs) ==
  IF rs = {} THEN B
  ELSE LET r == CHOOSE x \in rs : TRUE
       IN runCallbacks(settledCallback(B, r, futs[r]), futs, rs \ {r})

markHandled(futs) ==
  [r \in RpcIds |-> IF r \in Unhandled(futs) THEN [futs[r] EXCEPT !.handled = TRUE] ELSE futs[r]]

\* Promise callbacks are microtasks: they run when the running handler has
\* returned, before any timer or I/O callback.  Only onStdout, which loops over
\* the lines of one chunk, can run more code before them.
HandlerRunning == Unhandled(future) # {}

\* ------------------------------------------------ POST /v1/chat/completions
\* requestIds are fresh UUIDs; the model hands them out in the order r1, r2
NextRequestId(r) == ~streams[r].started /\ (r = "r2" => streams["r1"].started)

\* the streaming path of the handler, up to its return
HandlePostStreaming(r) ==
  /\ ~HandlerRunning
  /\ Step
  /\ NextRequestId(r)
  /\ LET streamState ==
           [NoStream EXCEPT !.started = TRUE,
                            !.keepalive = "on",
                            !.lastEventAt = clock,
                            !.hardTimeout = "armed",
                            !.res = sseSend(sseSend(NewRes, ConnectedComment), RoleChunk)]
         B1 == registerStream([Bridge EXCEPT !.streams[r] = streamState], r)
     IN IF ensureRunning
        THEN /\ SetBridge(B1)
             /\ pending' = pending \cup {r}
             /\ rpcTimer' = [rpcTimer EXCEPT ![r] = "armed"]
             /\ future' = [future EXCEPT ![r].state = "pending"]
        ELSE /\ SetBridge(completeStream(B1, r, ErrorOpts(NotRunningMessage)))
             /\ UNCHANGED <<pending, rpcTimer, future>>
  /\ UNCHANGED <<proc, restarts, respawnTimer, streamChunkChars, env, children, stdout, clock, used>>

PostStreaming(r) == HandlePostStreaming(r) /\ UNCHANGED <<upstream, http>>

\* the setInterval callback of the stream
KeepaliveTick(r) ==
  /\ ~HandlerRunning
  /\ Step
  /\ streams[r].keepalive = "on"
  /\ used["keepalive"] < MaxKeepalives
  /\ Use("keepalive")
  /\ streams' = [streams EXCEPT ![r].res = sseSend(@, KeepaliveComment)]
  /\ UNCHANGED <<proc, restarts, respawnTimer, pending, rpcTimer, future, activeStreams,
                 streamAliases, streamChunkChars, env, children, stdout, clock, calls, learned, upstream, http>>

HardTimeoutMessage == <<"hard timeout after ", "hardRequestTimeoutMs", "ms">>

\* the setTimeout callback of the stream
HandleHardTimeout(r) ==
  /\ ~HandlerRunning
  /\ streams[r].hardTimeout = "armed"
  /\ LET B1 == [Bridge EXCEPT !.streams[r].hardTimeout = "fired"]
     IN IF callerSkips(streams[r]) THEN SetBridge(B1)
        ELSE SetBridge(completeStream(B1, r, ErrorOpts(HardTimeoutMessage)))
  /\ UNCHANGED <<proc, restarts, respawnTimer, pending, rpcTimer, future,
                 streamChunkChars, env, children, stdout, clock, used, upstream, http>>

HardTimeoutFire(r) == Step /\ HandleHardTimeout(r)

\* res.on("close")
ClientClose(r) ==
  /\ ~HandlerRunning
  /\ Step
  /\ streams[r].started
  /\ ~streams[r].resClosed
  /\ LET s1 == [streams[r] EXCEPT !.resClosed = TRUE,
                                  !.closed = TRUE,
                                  !.keepalive = ClearKeepalive(@),
                                  !.hardTimeout = ClearTimer(@)]
     IN SetBridge(unregisterStream([Bridge EXCEPT !.streams[r] = s1], r))
  /\ UNCHANGED <<proc, restarts, respawnTimer, pending, rpcTimer, future,
                 streamChunkChars, env, children, stdout, clock, used, upstream, http>>

\* the then / catch callbacks run once onStdout has returned
ToolsCallSettled ==
  /\ HandlerRunning
  /\ future' = markHandled(future)
  /\ SetBridge(runCallbacks(Bridge, future, Unhandled(future) \cap RIDs))
  /\ http' = httpAfter(future)
  /\ UNCHANGED <<proc, restarts, respawnTimer, pending, rpcTimer,
                 streamChunkChars, env, children, stdout, clock, used, steps, upstream>>

\* ------------------------------------------------------ the child's stdout
\* onStdout, a line with an id: a JSON-RPC response
Rpc == [pending |-> pending, rpcTimer |-> rpcTimer, future |-> future]

\* faulty variant: the response settles the oldest pending RPC, whatever its id
onResponse_oldestPending(R, id, isError, result, err) ==
  IF R.pending = {} THEN R
  ELSE LET first == IF "r1" \in R.pending THEN "r1"
                    ELSE IF "r2" \in R.pending THEN "r2" ELSE "p1"
       IN [R EXCEPT !.rpcTimer[first] = ClearTimer(@),
                    !.pending = @ \ {first},
                    !.future[first] = IF isError THEN rejectFuture(@, err)
                                      ELSE resolveFuture(@, result)]

\* lines 332-344: look the id up; settle and forget the entry it names
onResponse(R, id, isError, result, err) ==
  IF id \in R.pending
  THEN [R EXCEPT !.rpcTimer[id] = ClearTimer(@),
                 !.pending = @ \ {id},
                 !.future[id] = IF isError THEN rejectFuture(@, err)
                                ELSE resolveFuture(@, result)]
  ELSE R

OnResponse(id, isError, result, err) ==
  /\ Step
  /\ rpcTimer[id] # "unset"
  /\ LET R == onResponse(Rpc, id, isError, result, err)
     IN /\ rpcTimer' = R.rpcTimer
        /\ pending' = R.pending
        /\ future' = R.future
  /\ UNCHANGED <<proc, restarts, respawnTimer, streams, activeStreams, streamAliases,
                 streamChunkChars, env, children, stdout, clock, used, calls, learned, upstream, http>>

StdoutResponse ==
  \E id \in RIDs :
    \/ \E result \in Results : OnResponse(id, FALSE, result, NoError)
    \/ \E err \in ResponseErrors : OnResponse(id, TRUE, NoResult, err)

\* the setTimeout callback of toolsCallStreaming, and the catch callback it causes
HandleRpcTimeout(id) ==
  /\ ~HandlerRunning
  /\ rpcTimer[id] = "armed"
  /\ rpcTimer' = [rpcTimer EXCEPT ![id] = "fired"]
  /\ pending' = pending \ {id}
  /\ LET futs == [future EXCEPT ![id] = rejectFuture(@, [message |-> TimeoutMessage(id)])]
     IN /\ future' = markHandled(futs)
        /\ SetBridge(runCallbacks(Bridge, futs, Unhandled(futs) \cap RIDs))
        /\ http' = httpAfter(futs)
  /\ UNCHANGED <<proc, restarts, respawnTimer, streamChunkChars, env, children, stdout, clock, used, upstream>>

RpcTimeout(id) == Step /\ HandleRpcTimeout(id)

\* onStdout, a codex/event notification
OnEvent(params) ==
  /\ Step
  /\ clock' = clock + 1
  /\ SetBridge(handleCodexEvent(Bridge, params, clock + 1))
  /\ UNCHANGED <<proc, restarts, respawnTimer, pending, rpcTimer, future,
                 streamChunkChars, env, children, stdout, used, http>>

TDelta == <<"output", "_", "text", "_", "delta">>
TCompleted == <<"Response", ".", "Completed">>
TFailed == <<"response", ".", "failed">>
TOther == <<"agent", "_", "message">>

DeltaTexts == { <<"a">>, <<"a", "b", "c">> }

EventMsgs ==
  { Msg(TDelta, d, NoText) : d \in DeltaTexts }
    \cup { Msg(TCompleted, NoText, NoText), Msg(TOther, <<"a">>, NoText) }
    \cup { Msg(TFailed, NoText, <<"rate limited">>) }

\* the child knows the requestIds it was sent, and chooses ids of its own
EventIdValues == SentIds \cup AliasIds \cup {NoId}

StdoutEvent ==
  \E m \in SentIds \cup {NoId}, i \in AliasIds \cup {NoId}, ri \in EventIdValues,
     msg \in EventMsgs :
    /\ clock < MaxEvents
    /\ OnEvent(Params(m, i, ri, msg))
    /\ UNCHANGED upstream

\* ------------------------------------------------------- the ChildSupervisor
failAllPendingFutures(err) ==
  [id \in RpcIds |-> IF id \in pending THEN rejectFuture(future[id], err) ELSE future[id]]

\* faulty variant: failAllPending rejects without cancelling the timeouts
failAllPendingTimers_keepsTimers(timers, pend) == timers

\* failAllPending, line 274: clearTimeout(p.timeout) for every pending entry
failAllPendingTimers(timers, pend) ==
  [id \in RpcIds |-> IF id \in pend THEN ClearTimer(timers[id]) ELSE timers[id]]

\* faulty variant: the delay grows without the cap
backoff_uncapped(n) == BackoffStepMs * n

\* line 139
backoff(n) == Min(BackoffStepMs * n, BackoffCapMs)

\* history of the children.  Lines 132-140: the child that emitted "exit" is
\* gone, and one setTimeout(() => this.start(), backoff) is issued
childExited(c, wasLive) ==
  [c EXCEPT !.live = IF wasLive THEN @ - 1 ELSE @, !.timers = @ + 1]

\* faulty variant: the "error" handler schedules a start() as "exit" does
childErrored_respawns(c) == [c EXCEPT !.timers = @ + 1]

\* lines 143-147: the "error" handler spawns nothing and schedules nothing
childErrored(c) == c

\* line 123, run by the timer: spawn() either starts a child or fails
startCalled(c, spawned) ==
  [c EXCEPT !.timers = @ - 1,
            !.live = IF spawned THEN @ + 1 ELSE @,
            !.wrote = <<>>,
            !.midLine = FALSE,
            !.overlapped = @ \/ c.live > 0]

\* the body of proc.on("exit"), and the callbacks of the futures it rejects
ExitHandler(st) ==
  /\ ~HandlerRunning
  /\ rpcTimer' = failAllPendingTimers(rpcTimer, pending)
  /\ pending' = {}
  /\ LET futs == failAllPendingFutures([message |-> ExitMessage(st)])
         B1 == failAllStreams(Bridge, ExitMessage(st))
     IN /\ future' = markHandled(futs)
        /\ SetBridge(runCallbacks(B1, futs, Unhandled(futs) \cap RIDs))
        /\ http' = httpAfter(futs)
  /\ proc' = "null"
  /\ restarts' = restarts + 1
  /\ respawnTimer' = backoff(restarts + 1)
  /\ UNCHANGED <<streamChunkChars, env, stdout, clock, used, upstream>>

\* proc.on("exit") of a child that lives
HandleExit(st) ==
  /\ proc \in {"running", "stdinClosed"}
  /\ ExitHandler(st)
  /\ children' = childExited(children, TRUE)

ChildExit(st) == Step /\ restarts < MaxRestarts /\ HandleExit(st)

\* setTimeout(() => this.start(), backoff)
HandleRespawn ==
  /\ ~HandlerRunning
  /\ respawnTimer > 0
  /\ respawnTimer' = 0
  /\ proc' = "running"
  /\ children' = startCalled(children, TRUE)
  /\ UNCHANGED <<restarts, pending, rpcTimer, future, streams, activeStreams, streamAliases,
                 streamChunkChars, env, stdout, clock, used, calls, learned, upstream, http>>

Respawn == Step /\ HandleRespawn

Next ==
  \/ \E r \in RIDs : PostStreaming(r)
  \/ \E r \in RIDs : KeepaliveTick(r)
  \/ \E r \in RIDs : HardTimeoutFire(r)
  \/ \E r \in RIDs : ClientClose(r)
  \/ ToolsCallSettled
  \/ StdoutResponse
  \/ \E id \in RIDs : RpcTimeout(id)
  \/ StdoutEvent
  \/ \E st \in ExitStatuses : ChildExit(st)
  \/ Respawn

Spec == Init /\ [][Next]_vars

\* ------------------------- non-streaming requests and a failing child
\* the non-stream path of the handler: codex.rpc("tools/call", ...) up to
\* the await, or the 502 when rpc throws
PostPlain(p) ==
  /\ ~HandlerRunning
  /\ Step
  /\ rpcTimer[p] = "unset" /\ http[p] = NoHttp
  /\ IF ensureRunning
     THEN /\ pending' = pending \cup {p}
          /\ rpcTimer' = [rpcTimer EXCEPT ![p] = "armed"]
          /\ future' = [future EXCEPT ![p].state = "pending"]
          /\ UNCHANGED http
     ELSE /\ http' = [http EXCEPT ![p] = HttpBadGateway(NotRunningMessage)]
          /\ UNCHANGED <<pending, rpcTimer, future>>
  /\ UNCHANGED <<proc, restarts, respawnTimer, streams, activeStreams, streamAliases,
                 streamChunkChars, env, children, stdout, clock, used, calls, learned, upstream>>

StdoutPlainResponse ==
  \E id \in PlainIds :
    \/ \E result \in Results : OnResponse(id, FALSE, result, NoError)
    \/ \E err \in ResponseErrors : OnResponse(id, TRUE, NoResult, err)

\* the child closes its end of the pipe: proc.stdin.writable becomes false
StdinClose ==
  /\ ~HandlerRunning
  /\ Step
  /\ proc = "running"
  /\ proc' = "stdinClosed"
  /\ UNCHANGED <<restarts, respawnTimer, pending, rpcTimer, future, streams, activeStreams,
                 streamAliases, streamChunkChars, env, children, stdout, clock, used, calls, learned, upstream, http>>

SpawnErrorMessage == <<"codex spawn error: ", "err.message">>

\* the body of proc.on("error"), lines 143-147: the handler fails what is
\* pending and what is streaming, and does nothing else
ErrorHandler(message) ==
  /\ ~HandlerRunning
  /\ rpcTimer' = failAllPendingTimers(rpcTimer, pending)
  /\ pending' = {}
  /\ LET futs == failAllPendingFutures([message |-> message])
         B1 == failAllStreams(Bridge, message)
     IN /\ future' = markHandled(futs)
        /\ SetBridge(runCallbacks(B1, futs, Unhandled(futs) \cap RIDs))
        /\ http' = httpAfter(futs)
  /\ UNCHANGED <<restarts, streamChunkChars, env, stdout, clock, used, upstream>>

\* start() run by the respawn timer when the child cannot be spawned: spawn
\* returns a handle, and "error" is emitted (instead of "exit") before any
\* other callback runs
HandleRespawnFails ==
  /\ respawnTimer > 0
  /\ respawnTimer' = 0
  /\ proc' = "failed"
  /\ ErrorHandler(SpawnErrorMessage)
  /\ children' = childErrored(startCalled(children, FALSE))

RespawnFails == Step /\ HandleRespawnFails

NextRpc ==
  \/ \E r \in RIDs : PostStreaming(r)
  \/ \E p \in PlainIds : PostPlain(p)
  \/ \E r \in RIDs : ClientClose(r)
  \/ ToolsCallSettled
  \/ StdoutResponse
  \/ StdoutPlainResponse
  \/ \E id \in RpcIds : RpcTimeout(id)
  \/ \E st \in ExitStatuses : ChildExit(st)
  \/ Respawn
  \/ RespawnFails
  \/ StdinClose

SpecRpc == Init /\ [][NextRpc]_vars

\* ------------------------------------------------- the supervisor, at length
SupervisorExit(st) ==
  /\ restarts < MaxSupervisorRestarts
  /\ HandleExit(st)
  /\ UNCHANGED steps

SupervisorRespawn == HandleRespawn /\ UNCHANGED steps

NextSupervisor ==
  \/ \E r \in RIDs : PostStreaming(r)
  \/ \E r \in RIDs : ClientClose(r)
  \/ \E st \in ExitStatuses : SupervisorExit(st)
  \/ SupervisorRespawn

SpecSupervisor == Init /\ [][NextSupervisor]_vars

\* ------------------------------------------- the bridge driven directly
\* completeStream is public: the unit tests call it on a stream they registered
DirectOpts ==
  { NoOpts, FinalOpts(<<"f">>), ErrorOpts(<<"e">>),
    [finalText |-> <<"f">>, errorText |-> <<"e">>, finishReason |-> "stop"] }

DirectCall(r, opts) ==
  /\ ~HandlerRunning
  /\ Step
  /\ streams[r].started
  /\ used["direct"] < MaxDirectCalls
  /\ Use("direct")
  /\ SetBridge(completeStream(Bridge, r, opts))
  /\ UNCHANGED <<proc, restarts, respawnTimer, pending, rpcTimer, future,
                 streamChunkChars, env, children, stdout, clock, upstream, http>>

NextApi == Next \/ \E r \in RIDs, opts \in DirectOpts : DirectCall(r, opts)

SpecApi == Init /\ [][NextApi]_vars

\* --------------------------------------- one upstream text, sent in deltas
\* The child produces one text per request and reports it in text-delta
\* events: plain increments, repeats of the previous delta, snapshots of the
\* text so far and deltas that overlap what was already sent.  upstream[r].sent
\* is the length of the prefix of the text that has been sent.
UpstreamChars == {"a", "b"}

UpstreamTexts == [1..MaxUpstreamLen -> UpstreamChars]

PostStreamingUpstream(r) ==
  /\ HandlePostStreaming(r)
  /\ UNCHANGED http
  /\ \E t \in UpstreamTexts :
       upstream' = [upstream EXCEPT ![r] = [@ EXCEPT !.text = t]]

DeltaTypes == { TDelta, <<"content", "_", "delta">> }

\* the delta text[i..j]: it starts no later than the first unsent character
\* and ends no earlier than the last sent one
UpstreamDelta(r, i, j, type) ==
  /\ future[r].state = "pending"
  /\ i \in 1..(upstream[r].sent + 1)
  /\ j \in i..Len(upstream[r].text)
  /\ j >= upstream[r].sent
  /\ LET text == SubSeq(upstream[r].text, i, j)
     IN /\ OnEvent(Params(r, NoId, NoId, Msg(type, text, NoText)))
        /\ upstream' = [upstream EXCEPT ![r].sent = j, ![r].last = text]

UpstreamCompleted(r) ==
  /\ future[r].state = "pending"
  /\ upstream[r].sent = Len(upstream[r].text)
  /\ OnEvent(Params(r, NoId, NoId, Msg(TCompleted, NoText, NoText)))
  /\ UNCHANGED upstream

NextCoalesce ==
  \/ \E r \in RIDs : PostStreamingUpstream(r)
  \/ \E r \in RIDs, i \in 1..MaxUpstreamLen, j \in 1..MaxUpstreamLen, type \in DeltaTypes :
       UpstreamDelta(r, i, j, type)
  \/ \E r \in RIDs : UpstreamCompleted(r)

SpecCoalesce == Init /\ [][NextCoalesce]_vars

\* ------------------------------------------------ spellings of event types
\* msg.type values the child may send: a type in one of its spellings
TypeBases ==
  { <<"text", "_", "delta">>,
    <<"message", "_", "text", "_", "delta">>,
    <<"response", "_", "completed">>,
    <<"response", "_", "item", "_", "failed">>,
    <<"agent", "_", "message">>,
    <<"_", "response", "_", "completed">>,
    <<"text", "_", "delta", "_">> }

\* what may stand where the base has "_"
SepRuns == { <<"_">>, <<".">>, <<" ">>, <<"-">>, <<"-", "_">> }

toUpperCaseFirst(c) ==
  CASE c = "response" -> "Response"
    [] c = "completed" -> "Completed"
    [] c = "delta" -> "Delta"
    [] c = "failed" -> "Failed"
    [] c = "text" -> "Text"
    [] c = "message" -> "Message"
    [] c = "item" -> "Item"
    [] c = "agent" -> "Agent"
    [] c = "output" -> "Output"
    [] OTHER -> c

\* the base with every "_" spelled as the run sep, in lower case or capitalised
SpellingOf(base, sep, capital) ==
  Concat([i \in 1..Len(base) |->
            IF base[i] = "_" THEN sep
            ELSE IF capital THEN <<toUpperCaseFirst(base[i])>> ELSE <<base[i]>>])

\* mixed spellings of response_output_text_delta
MixedSpellings ==
  { <<"response", ".", "output", "_", "text", ".", "delta">>,
    <<"response", " ", "output", "_", "text", " ", "delta">>,
    <<"Response", "-", "Output", "_", "Text", "-", "Delta">> }

TypeSpellings ==
  { SpellingOf(b, sep, capital) : b \in TypeBases, sep \in SepRuns, capital \in BOOLEAN }
    \cup MixedSpellings

TypedEvent(r, type, delta) ==
  /\ future[r].state = "pending"
  /\ clock < MaxTypedEvents
  /\ LET params == Params(r, NoId, NoId, Msg(type, delta, NoText))
     IN /\ OnEvent(params)
        /\ upstream' = [upstream EXCEPT ![r].event = params]

NextTypes ==
  \/ \E r \in RIDs : PostStreaming(r)
  \/ \E r \in RIDs, type \in TypeSpellings : TypedEvent(r, type, <<"a">>)

SpecTypes == Init /\ [][NextTypes]_vars

\* ------------------------------------------------ events carrying errors
\* msg.error: absent, "", a string, or an object whose message is absent, ""
\* or a string
ErrorShapes ==
  { [error |-> e, error_message |-> NoText] : e \in {NoText, EmptyText, <<"boom">>} }
    \cup { [error |-> NoText, error_message |-> m] : m \in {EmptyText, <<"denied">>} }

MessageShapes == { NoText, <<" ">>, <<"rate limited">> }

ErrorTypes ==
  { TFailed, <<"response", "_", "incomplete">>, TCompleted, TOther, <<"error">> }

ErrorMsgs ==
  { ErrorMsg(type, e.error, e.error_message, message) :
      type \in ErrorTypes, e \in ErrorShapes, message \in MessageShapes }

ErrorEvent(r, msg) ==
  /\ future[r].state = "pending"
  /\ clock < MaxTypedEvents
  /\ LET params == Params(r, NoId, NoId, msg)
     IN /\ OnEvent(params)
        /\ upstream' = [upstream EXCEPT ![r].event = params]

NextErrors ==
  \/ \E r \in RIDs : PostStreaming(r)
  \/ \E r \in RIDs, msg \in ErrorMsgs : ErrorEvent(r, msg)

SpecErrors == Init /\ [][NextErrors]_vars

\* ------------------------------------------------ text in any shape
\* each text field absent, "" or a string; msg.parts absent, or an array
\* whose elements have a text, an empty text or none
PartsShapes ==
  { <<>>, << <<"d">>, <<"e">> >>, << NoText, <<"d">> >>, << EmptyText >> }

ShapedMsgs ==
  { ShapedMsg(TDelta, d, t, pt, ps) :
      d \in {NoText, EmptyText, <<"a">>},
      t \in {NoText, EmptyText, <<"b">>},
      pt \in {NoText, EmptyText, <<"c">>},
      ps \in PartsShapes }

ShapedEvent(r, msg) ==
  /\ future[r].state = "pending"
  /\ clock < MaxTypedEvents
  /\ LET params == Params(r, NoId, NoId, msg)
     IN /\ OnEvent(params)
        /\ upstream' = [upstream EXCEPT ![r].event = params]

NextShapes ==
  \/ \E r \in RIDs : PostStreaming(r)
  \/ \E r \in RIDs, msg \in ShapedMsgs : ShapedEvent(r, msg)

SpecShapes == Init /\ [][NextShapes]_vars

\* ------------------------------------------------ text, error and end in one event
\* notifications of any type that carry a delta text, an error, both or neither
MixedMsgs ==
  { [Msg(type, d, NoText) EXCEPT !.error = e] :
      type \in {TDelta, TFailed, TCompleted, TOther},
      d \in {NoText, <<"a">>, <<"a", "b", "c">>},
      e \in {NoText, <<"boom">>} }

MixedEvent(r, msg) ==
  /\ future[r].state = "pending"
  /\ clock < MaxEvents
  /\ LET params == Params(r, NoId, NoId, msg)
     IN /\ OnEvent(params)
        /\ upstream' = [upstream EXCEPT ![r].event = params]

NextOrder ==
  \/ \E r \in RIDs : PostStreaming(r)
  \/ \E r \in RIDs, msg \in MixedMsgs : MixedEvent(r, msg)

SpecOrder == Init /\ [][NextOrder]_vars

\* ------------------------------------------------ deltas of any large text
\* The child sends text deltas made of blocks, any text after any other;
\* upstream[r].last is the text of the delta sent last for the request.
\* a delta text is at most one block longer than the window
MaxBlocks == (maxChars \div BlockChars) + 1

BlockTexts == UNION { [1..n -> BlockTokens] : n \in 1..MaxBlocks }

\* two short texts, the end of the first overlapping the start of the second
\* in more than one way
OverlapTexts == { <<"a", "a", "a">>, <<"a", "a", "b">> }

BlockDelta(r, text, type) ==
  /\ future[r].state = "pending"
  /\ clock < MaxEvents
  /\ OnEvent(Params(r, NoId, NoId, Msg(type, text, NoText)))
  /\ upstream' = [upstream EXCEPT ![r].last = text]

NextWindow ==
  \/ \E r \in RIDs : PostStreaming(r)
  \/ \E r \in RIDs, text \in BlockTexts \cup OverlapTexts, type \in DeltaTypes :
       BlockDelta(r, text, type)

SpecWindow == Init /\ [][NextWindow]_vars

\* ------------------------------------------------ any STREAM_CHUNK_CHARS
\* streamChunkChars is Number(process.env.STREAM_CHUNK_CHARS): negative, zero,
\* smaller than, equal to and larger than the contents written
ChunkCharsOptions == (0 - 1)..MaxChunkChars

\* a notification that carries the requestId of the request it is about
AddressedEvent(r, msg) ==
  /\ future[r].state = "pending"
  /\ clock < MaxEvents
  /\ LET params == Params(r, NoId, NoId, msg)
     IN /\ OnEvent(params)
        /\ upstream' = [upstream EXCEPT ![r].event = params]

NextChunks ==
  \/ \E r \in RIDs : PostStreaming(r)
  \/ \E r \in RIDs, msg \in EventMsgs : AddressedEvent(r, msg)
  \/ StdoutResponse
  \/ ToolsCallSettled
  \/ \E st \in ExitStatuses : ChildExit(st)

InitChunks == InitWith(ChunkCharsOptions, {DefaultEnv})

SpecChunks == InitChunks /\ [][NextChunks]_vars

\* ------------------------------------------------ timers that do fire
\* The child sends events that end no stream, answers a tools/call or not,
\* or exits.  The hard timeout of a stream fires whatever else has happened
\* (setTimeout), and the then / catch callbacks of a settled promise run (the
\* microtask queue): these steps are not counted, and each is taken if it
\* stays possible.  The timeout of a tools/call may fire as well.
HardTimeoutElapses(r) == HandleHardTimeout(r) /\ UNCHANGED steps

RpcTimeoutElapses(id) == HandleRpcTimeout(id) /\ UNCHANGED steps

NextLive ==
  \/ \E r \in RIDs : PostStreaming(r)
  \/ \E r \in RIDs : ClientClose(r)
  \/ \E r \in RIDs : AddressedEvent(r, Msg(TDelta, <<"a">>, NoText))
  \/ StdoutResponse
  \/ \E st \in ExitStatuses : ChildExit(st)
  \/ ToolsCallSettled
  \/ \E r \in RIDs : HardTimeoutElapses(r)
  \/ \E id \in RIDs : RpcTimeoutElapses(id)

SpecLive ==
  /\ Init
  /\ [][NextLive]_vars
  /\ WF_vars(ToolsCallSettled)
  /\ \A r \in RIDs : WF_vars(HardTimeoutElapses(r))

\* ------------------------------------------------------ auth and the routes
ApiKey == <<"sekret">>

\* a request carries one header that may hold a credential
Request(header, value) == [header |-> header, value |-> value]

HeaderNames == {"authorization", "x-api-key"}

HeaderValues ==
  { NoText, EmptyText, ApiKey, <<"wrong">>, <<" ", "sekret", " ">>,
    <<"Bearer", " ", "sekret">>, <<"Bearer", " ", " ", "sekret">>,
    <<"Bearer", " ", "wrong">>, <<"bearer", " ", "sekret">>, <<"Bearer">> }

\* getAuthValue, lines 7-12
getAuthValue(req) ==
  IF req.header # env.API_KEY_HEADER \/ req.value = NoText THEN EmptyText ELSE req.value

\* /^Bearer\s+(.+)$/
matchesBearer(raw) == Len(raw) >= 3 /\ raw[1] = "Bearer" /\ IsBlank(raw[2])

\* faulty variant: a bare key is accepted whatever REQUIRE_BEARER says
checkAuth_bareKeyAlways(req) ==
  IF env.API_KEY = EmptyText THEN TRUE
  ELSE LET raw == trim(getAuthValue(req))
       IN IF raw = EmptyText THEN FALSE
          ELSE IF env.API_KEY_HEADER = "authorization" /\ matchesBearer(raw)
               THEN trimStart(Tail(raw)) = env.API_KEY
               ELSE raw = env.API_KEY

\* checkAuth, lines 14-27
checkAuth(req) ==
  IF env.API_KEY = EmptyText THEN TRUE
  ELSE LET raw == trim(getAuthValue(req))
       IN IF raw = EmptyText THEN FALSE
          ELSE IF env.API_KEY_HEADER = "authorization"
               THEN IF matchesBearer(raw) THEN trimStart(Tail(raw)) = env.API_KEY
                    ELSE IF env.REQUIRE_BEARER THEN FALSE ELSE raw = env.API_KEY
               ELSE raw = env.API_KEY

\* the response to a request, with the request it answers
HttpResponse(status, route, req) ==
  [status |-> status, text |-> NoText, route |-> route, req |-> req]

\* unauthorized(res)
Unauthorized(route, req) == HttpResponse(401, route, req)

\* GET /health, GET /v1/models, POST /v1/embeddings (a stub that answers 200)
PlainRoutes == {"/health", "/v1/models", "/v1/embeddings"}

HandleRoute(q, route, req) ==
  /\ ~HandlerRunning
  /\ Step
  /\ http[q] = NoHttp
  /\ http' = [http EXCEPT ![q] = IF route = "/health" \/ checkAuth(req)
                                 THEN HttpResponse(200, route, req)
                                 ELSE Unauthorized(route, req)]
  /\ UNCHANGED <<proc, restarts, respawnTimer, pending, rpcTimer, future, streams,
                 activeStreams, streamAliases, streamChunkChars, env, children, stdout, clock, used,
                 calls, learned, upstream>>

\* POST /v1/chat/completions with stream: true, from the auth check on
HandleChat(q, r, req) ==
  /\ http[q] = NoHttp
  /\ IF checkAuth(req)
     THEN /\ HandlePostStreaming(r)
          /\ http' = [http EXCEPT ![q] = HttpResponse(200, "/v1/chat/completions", req)]
          /\ UNCHANGED upstream
     ELSE /\ ~HandlerRunning
          /\ Step
          /\ NextRequestId(r)
          /\ http' = [http EXCEPT ![q] = Unauthorized("/v1/chat/completions", req)]
          /\ UNCHANGED <<proc, restarts, respawnTimer, pending, rpcTimer, future, streams,
                         activeStreams, streamAliases, streamChunkChars, env, children, stdout, clock,
                         used, calls, learned, upstream>>

Requests == { Request(h, v) : h \in HeaderNames, v \in HeaderValues }

EnvOptions ==
  { Env(k, h, b) : k \in {EmptyText, ApiKey}, h \in HeaderNames, b \in BOOLEAN }

InitAuth == InitWith(StreamChunkCharsOptions, EnvOptions)

NextAuth ==
  \/ \E q \in QueryIds, route \in PlainRoutes, req \in Requests : HandleRoute(q, route, req)
  \/ \E q \in QueryIds, r \in RIDs, req \in Requests : HandleChat(q, r, req)
  \/ \E r \in RIDs : ClientClose(r)

SpecAuth == InitAuth /\ [][NextAuth]_vars

\* ------------------------------------------------ the child's stdout, framed
\* The child writes lines of bytes into the pipe; the bridge reads the pipe in
\* data chunks of any size.  A byte is a token: the two bytes of a non-ASCII
\* character, or a piece of ASCII text that no chunk boundary cuts.
Utf8Lead == "C3"

Utf8Continuation == "A9"

ReplacementChar == "U+FFFD"

\* Buffer.prototype.toString("utf8"), line 130: a character whose bytes are
\* not all in the chunk decodes to U+FFFD
RECURSIVE toStringUtf8(_)
toStringUtf8(d) ==
  IF d = <<>> THEN <<>>
  ELSE IF Head(d) = Utf8Lead
       THEN IF Len(d) > 1 /\ d[2] = Utf8Continuation
            THEN <<"é">> \o toStringUtf8(Tail(Tail(d)))
            ELSE <<ReplacementChar>> \o toStringUtf8(Tail(d))
  ELSE IF Head(d) = Utf8Continuation THEN <<ReplacementChar>> \o toStringUtf8(Tail(d))
  ELSE <<Head(d)>> \o toStringUtf8(Tail(d))

\* the JSON text of a notification {"method":"codex/event","params":{"_meta":
\* {"requestId":id},"msg":{"type":"text_delta","delta":text}}} and of a response
\* {"id":id,"result":...}
EventHead == "{event "

EventMid == " text_delta "

EventTail == "}"

ResponseHead == "{response "

ResponseTail == " result}"

JsonStringChars == {"h", "é", ReplacementChar}

WireResult == [content |-> <<TextPart(<<"f", "g", "h">>)>>, str |-> NoText]

NotJson == [ok |-> FALSE, kind |-> "none", id |-> NoId, params |-> NoEvent]

\* JSON.parse(line), lines 325-330, and what lines 332 and 347 look at
jsonParse(line) ==
  IF /\ Len(line) >= 4
     /\ line[1] = EventHead /\ line[2] \in RIDs /\ line[3] = EventMid
     /\ line[Len(line)] = EventTail
     /\ \A i \in 4..(Len(line) - 1) : line[i] \in JsonStringChars
  THEN [ok |-> TRUE, kind |-> "event", id |-> NoId,
        params |-> Params(line[2], NoId, NoId,
                          Msg(<<"text", "_", "delta">>, SubSeq(line, 4, Len(line) - 1), NoText))]
  ELSE IF Len(line) = 3 /\ line[1] = ResponseHead /\ line[2] \in RpcIds /\ line[3] = ResponseTail
  THEN [ok |-> TRUE, kind |-> "response", id |-> line[2], params |-> NoEvent]
  ELSE IF line = <<"null">>
  THEN [ok |-> TRUE, kind |-> "other", id |-> NoId, params |-> NoEvent]
  ELSE NotJson

\* this.buffer.indexOf("\n"), 0 for -1
indexOfNewline(buf) ==
  IF \E i \in 1..Len(buf) : buf[i] = "\n"
  THEN CHOOSE i \in 1..Len(buf) : buf[i] = "\n" /\ \A j \in 1..(i - 1) : buf[j] # "\n"
  ELSE 0

\* lines 332-349: one parsed message
dispatch(S, m) ==
  LET S1 == [S EXCEPT !.decoded = Append(@, m)]
  IN IF m.kind = "response"
     THEN [S1 EXCEPT !.R = onResponse(@, m.id, FALSE, WireResult, NoError)]
     ELSE IF m.kind = "event"
     THEN [S1 EXCEPT !.B = handleCodexEvent(@, m.params, S.clock + 1), !.clock = @ + 1]
     ELSE S1

\* lines 314-350: the loop over the complete lines of the buffer
RECURSIVE onStdoutLoop(_)
onStdoutLoop(S) ==
  LET idx == indexOfNewline(S.buffer)
  IN IF idx = 0 THEN S
     ELSE LET line0 == SubSeq(S.buffer, 1, idx - 1)
              S1 == [S EXCEPT !.buffer = SubSeq(S.buffer, idx + 1, Len(S.buffer))]
              line == IF endsWith(line0, <<"\r">>) THEN SubSeq(line0, 1, Len(line0) - 1)
                      ELSE line0
              m == jsonParse(line)
          IN IF line = <<>> THEN onStdoutLoop(S1)
             ELSE IF ~m.ok THEN onStdoutLoop(S1)
             ELSE onStdoutLoop(dispatch(S1, m))

\* proc.stdout.on("data"): the first n bytes of the pipe arrive as one chunk
StdoutData(n) ==
  /\ ~HandlerRunning
  /\ Step
  /\ n \in 1..Len(stdout.pipe)
  /\ LET d == SubSeq(stdout.pipe, 1, n)
         S == onStdoutLoop([B |-> Bridge, R |-> Rpc, clock |-> clock,
                            buffer |-> stdout.buffer \o toStringUtf8(d),
                            decoded |-> stdout.decoded])
     IN /\ SetBridge(S.B)
        /\ pending' = S.R.pending
        /\ rpcTimer' = S.R.rpcTimer
        /\ future' = S.R.future
        /\ clock' = S.clock
        /\ stdout' = [stdout EXCEPT !.pipe = SubSeq(@, n + 1, Len(@)),
                                    !.buffer = S.buffer,
                                    !.read = @ \o d,
                                    !.decoded = S.decoded]
  /\ UNCHANGED <<proc, restarts, respawnTimer, streamChunkChars, env, children, used, upstream, http>>

\* the lines the child writes: an event and a response for a request it was
\* sent, a line that is not JSON, an empty line
WireLines(ids) ==
  { <<EventHead, id, EventMid, Utf8Lead, Utf8Continuation, EventTail, "\n">> : id \in ids }
    \cup { <<ResponseHead, id, ResponseTail, "\r", "\n">> : id \in ids }
    \cup { <<"oops", "\n">>, <<"\r", "\n">> }

\* the child writes a line to its stdout
ChildWrites(line) ==
  /\ proc \in {"running", "stdinClosed"}
  /\ stdout.lines < MaxLines
  /\ line \in WireLines(SentIds)
  /\ stdout' = [stdout EXCEPT !.pipe = @ \o line, !.lines = @ + 1]
  /\ UNCHANGED <<proc, restarts, respawnTimer, pending, rpcTimer, future, streams,
                 activeStreams, streamAliases, streamChunkChars, env, children, clock, used, steps,
                 calls, learned, upstream, http>>

NextFraming ==
  \/ \E r \in RIDs : PostStreaming(r)
  \/ \E line \in WireLines(RIDs) : ChildWrites(line)
  \/ \E n \in 1..MaxChunkLen : StdoutData(n)
  \/ ToolsCallSettled

SpecFraming == Init /\ [][NextFraming]_vars

\* ================================================================== claims
Writes(r) == streams[r].res.writes

IsDone(f) == f.kind = "done"

IsFinish(f) == f.kind = "chunk" /\ f.finish_reason # "null"

DoneCount(w) == Cardinality({i \in 1..Len(w) : IsDone(w[i])})

FinishCount(w) == Cardinality({i \in 1..Len(w) : IsFinish(w[i])})

HasFrame(w, src) == \E i \in 1..Len(w) : w[i].src = src

HasKeepalive(w) == \E i \in 1..Len(w) : w[i] = KeepaliveComment

\* the concatenation of the delta.content values that text-delta events produced
DeltaContent(w) ==
  LET fs == SelectSeq(w, LAMBDA f : f.src = "delta")
  IN Concat([i \in 1..Len(fs) |-> fs[i].content])

EndsWithFinishAndDone(w) ==
  /\ Len(w) >= 2
  /\ w[Len(w)] = DoneFrame
  /\ IsFinish(w[Len(w) - 1])
  /\ w[Len(w) - 1].finish_reason = "stop"

NoAliases == [a \in IdValues |-> NoId]

\* the chunk failAllStreams writes for an exit with status st
ExitErrorChunk(st) ==
  Frame("chunk", "",
        <<"\n[bridge error] ", "codex exited code=", st.code, " signal=", st.signal, "\n">>,
        "stop", "error")

\* events to try in every reachable state
ProbeIds == IdValues \cup {NoId}

ProbeMsgs == EventMsgs

ProbeParams ==
  { Params(m, NoId, ri, msg) : m \in ProbeIds, ri \in ProbeIds, msg \in ProbeMsgs }

ProbeFields(p) == {p.meta_requestId, p.id, p.response_id} \ {NoId}

\* ---- C1 ----------------------------------------------------------------
\* C1: a stream the core terminated has [DONE] on its sink exactly once, as
\* the last write; a stream that is not done has no [DONE]; once done a
\* stream stays done and nothing more is written to its sink.
C1_DoneState(r) ==
  IF streams[r].done
  THEN DoneCount(Writes(r)) = 1 /\ Writes(r)[Len(Writes(r))] = DoneFrame
  ELSE DoneCount(Writes(r)) = 0

C1_DoneOnceAndLast ==
  /\ [](\A r \in RIDs : C1_DoneState(r))
  /\ [][\A r \in RIDs : streams[r].done =>
          streams'[r].done /\ streams'[r].res = streams[r].res]_vars

\* a stream that got a keepalive, was completed by the core, and whose
\* tools/call response arrived only afterwards (its text was not written)
C1_Witness ==
  \E r \in RIDs :
    /\ streams[r].done /\ ~streams[r].closed
    /\ HasKeepalive(Writes(r))
    /\ future[r].state = "resolved" /\ future[r].handled
    /\ ~streams[r].hasStreamedDelta
    /\ ~HasFrame(Writes(r), "final")

\* ---- C2 ----------------------------------------------------------------
\* C2: on a stream with hasStreamedDelta = true no content chunk carries the
\* final text of the tools/call result, and if the stream is done its sink
\* ends with a chunk with finish_reason "stop" followed by [DONE].
C2_FinalTextSuppressed ==
  \A r \in RIDs :
    streams[r].hasStreamedDelta =>
      /\ ~HasFrame(Writes(r), "final")
      /\ streams[r].done => EndsWithFinishAndDone(Writes(r))

\* the only event read was a delta; then tools/call resolved and its callback
\* completed the stream
C2_Witness ==
  \E r \in RIDs :
    /\ streams[r].hasStreamedDelta
    /\ streams[r].done /\ ~streams[r].closed
    /\ clock = 1
    /\ future[r].state = "resolved" /\ future[r].handled
    /\ Truthy(extractTextFromToolResult(future[r].result))
    /\ ~HasFrame(Writes(r), "error")
    /\ calls[r] = 1

\* ---- C3 ----------------------------------------------------------------
\* C3: however often completeStream is called for a requestId, its sink has
\* at most one finish chunk and one [DONE] (exactly one of each once a call
\* found the stream active), and a call made after an earlier call for the
\* same requestId changes neither a stream, nor the registry, nor the aliases.
C3_CompleteStreamIdempotent ==
  /\ [](\A r \in RIDs :
          /\ FinishCount(Writes(r)) = DoneCount(Writes(r))
          /\ DoneCount(Writes(r)) = (IF streams[r].done THEN 1 ELSE 0)
          /\ calls[r] >= 1 => streams[r].done \/ streams[r].closed)
  /\ [][\A r \in RIDs :
          (calls[r] >= 1 /\ calls'[r] > calls[r]) =>
             /\ streams' = streams
             /\ activeStreams' = activeStreams
             /\ streamAliases' = streamAliases]_vars

\* completeStream was called three times for a stream it completed
C3_Witness ==
  \E r \in RIDs :
    /\ calls[r] >= 3
    /\ streams[r].done /\ ~streams[r].closed
    /\ HasFrame(Writes(r), "finish")

\* ---- C4 ----------------------------------------------------------------
\* C4 (as claimed): whatever mix of increments, repeats, snapshots and
\* overlapping deltas reports the upstream text, the content emitted on the
\* stream equals the part of the upstream text sent so far.
C4_ContentEqualsUpstream ==
  \A r \in RIDs :
    streams[r].started =>
      DeltaContent(Writes(r)) = SubSeq(upstream[r].text, 1, upstream[r].sent)

\* ---- C5 ----------------------------------------------------------------
\* C5: the exit handler writes to each active stream exactly the bridge-error
\* chunk of this exit and [DONE], and nothing else (the rejected futures'
\* callbacks included); it marks the stream done and empties the registry and
\* the alias table; both are empty while no child runs and when start() runs.
C5_ExitFailsStreams ==
  /\ [][(proc = "running" /\ proc' = "null") =>
          /\ \E st \in ExitStatuses :
               \A r \in activeStreams :
                 /\ streams'[r].res.writes = Writes(r) \o <<ExitErrorChunk(st), DoneFrame>>
                 /\ streams'[r].done
          /\ activeStreams' = {}
          /\ streamAliases' = NoAliases]_vars
  /\ [][(proc = "null" /\ proc' = "running") =>
          activeStreams = {} /\ streamAliases = NoAliases]_vars
  /\ [](proc = "null" => activeStreams = {} /\ streamAliases = NoAliases)

\* the child exited while two streams were active, one of them with an alias
C5_Witness ==
  /\ proc = "null"
  /\ \A r \in RIDs :
       /\ streams[r].done
       /\ \E st \in ExitStatuses :
            SubSeq(Writes(r), Len(Writes(r)) - 1, Len(Writes(r))) = <<ExitErrorChunk(st), DoneFrame>>
       /\ future[r].state = "rejected" /\ future[r].handled
  /\ \E r \in RIDs : learned[r] # {}

\* ---- C6 ----------------------------------------------------------------
\* C6: the exit handler rejects every pending RPC with the message of this
\* exit, cancels its timeout and empties the pending map; a cancelled timeout
\* stays cancelled; no future is settled twice; an id is pending only while
\* its timeout is armed.
C6_ExitRejectsPending ==
  /\ [][(proc = "running" /\ proc' = "null") =>
          /\ \E st \in ExitStatuses :
               \A id \in pending :
                 /\ future'[id].state = "rejected"
                 /\ future'[id].error.message =
                      <<"codex exited code=", st.code, " signal=", st.signal>>
                 /\ rpcTimer'[id] = "cleared"
          /\ pending' = {}]_vars
  /\ [][\A id \in RIDs : rpcTimer[id] = "cleared" => rpcTimer'[id] = "cleared"]_vars
  /\ [](\A id \in RIDs :
          /\ future[id].settles <= 1
          /\ id \in pending <=> rpcTimer[id] = "armed")

\* two RPCs were pending when the child exited
C6_Witness ==
  /\ proc = "null"
  /\ pending = {}
  /\ \A id \in RIDs :
       /\ future[id].state = "rejected"
       /\ future[id].settles = 1
       /\ rpcTimer[id] = "cleared"
       /\ \E st \in ExitStatuses : future[id].error.message = ExitMessage(st)

\* ---- C7 ----------------------------------------------------------------
\* msg.type values of terminal events, as the child may spell them
TerminalTypeSamples ==
  { TCompleted,
    <<" ", "response", "-", "-", "failed">>,
    <<"response", "_", "incomplete">>,
    <<"response", ".", "output_item", ".", "completed">> }

TerminalProbes ==
  { Params(m, NoId, ri, msg) :
      m \in ProbeIds, ri \in AliasIds \cup {NoId},
      msg \in { Msg(t, NoText, NoText) : t \in TerminalTypeSamples }
                \cup { Msg(t, <<"a">>, <<"rate limited">>) : t \in {TCompleted, TFailed} } }

\* the ways the tools/call future of r can be settled
SettledProbes(r) ==
  { [NoFuture EXCEPT !.state = "resolved", !.result = res] : res \in Results }
    \cup { [NoFuture EXCEPT !.state = "rejected", !.error = e] :
             e \in ResponseErrors \cup {[message |-> TimeoutMessage(r)]} }

\* C7: in every reachable state, handling a terminal event that resolves to
\* an active stream completes that stream in the same handler, whatever the
\* state of its tools/call (finish chunk and [DONE] written, stream done and
\* unregistered); and for a done stream the callback of a tools/call that
\* resolves, fails or times out afterwards changes nothing.
C7_TerminalEventCompletes ==
  /\ \A p \in TerminalProbes : \A r \in {resolveStreamForEvent(Bridge, p).requestId} :
       r \in activeStreams =>
         LET B2 == handleCodexEvent(Bridge, p, clock + 1)
             w == B2.streams[r].res.writes
         IN /\ B2.streams[r].done
            /\ r \notin B2.active
            /\ Len(w) >= 2
            /\ w[Len(w)] = DoneFrame
            /\ w[Len(w) - 1] = FinishChunk("stop")
  /\ \A r \in RIDs :
       streams[r].done =>
         \A fut \in SettledProbes(r) : settledCallback(Bridge, r, fut) = Bridge

\* a completed-event finished the stream while its tools/call was pending,
\* and the RPC timeout that fired afterwards wrote nothing
C7_Witness ==
  \E r \in RIDs :
    /\ streams[r].done /\ ~streams[r].closed
    /\ ~HasFrame(Writes(r), "error")
    /\ streams[r].lastEventAt >= 1
    /\ calls[r] = 1
    /\ future[r].state = "rejected" /\ future[r].handled
    /\ rpcTimer[r] = "fired"

\* ---- C8 ----------------------------------------------------------------
\* no id field of the event, and no alias target of one, is an active stream
Unresolved(p) ==
  \A v \in ProbeFields(p) : v \notin activeStreams /\ streamAliases[v] \notin activeStreams

\* C8: in every reachable state with no or with several active streams,
\* handling an event none of whose ids (or their alias targets) names an
\* active stream leaves every stream, every sink and the alias table as
\* they were.
C8_UnresolvedEventDropped ==
  \A p \in ProbeParams :
    (Unresolved(p) /\ Cardinality(activeStreams) # 1) =>
       handleCodexEvent(Bridge, p, clock + 1) = Bridge

\* two streams are active and the two events read so far changed nothing
C8_Witness ==
  /\ Cardinality(activeStreams) = 2
  /\ clock = 2
  /\ streamAliases = NoAliases
  /\ \A r \in RIDs :
       /\ streams[r].lastEventAt = 0
       /\ Writes(r) = <<ConnectedComment, RoleChunk>>

\* ---- C9 ----------------------------------------------------------------
\* C9: (learning) when an event resolves to active stream R and carries an
\* upstream-chosen id X that is not the alias of another stream, then after
\* the handler X is an alias of R unless R was completed by that event;
\* (keeping) an id that has been an alias of R is an alias of R for as long
\* as R is active; (delivery) while X is an alias of active R, an event whose
\* only id is X resolves to R, and not through the sole-stream fallback.
C9_AliasLearning ==
  /\ \A p \in ProbeParams : \A X \in ProbeFields(p) \cap AliasIds :
       LET R == resolveStreamForEvent(Bridge, p).requestId
           B2 == handleCodexEvent(Bridge, p, clock + 1)
       IN (R # NoId /\ streamAliases[X] \in {NoId, R} /\ R \in B2.active) =>
             B2.aliases[X] = R
  /\ \A R \in activeStreams : \A X \in learned[R] : streamAliases[X] = R
  /\ \A X \in AliasIds : \A R \in activeStreams :
       streamAliases[X] = R =>
         \A msg \in ProbeMsgs :
           resolveStreamForEvent(Bridge, Params(NoId, NoId, X, msg))
             = [requestId |-> R, usedFallback |-> FALSE]

\* two streams are active, R has learned an alias and streamed a delta, and
\* handling response.failed carrying only the alias ends R with the error
C9_Witness ==
  \E R \in activeStreams : \E X \in AliasIds :
    /\ Cardinality(activeStreams) = 2
    /\ streamAliases[X] = R
    /\ streams[R].hasStreamedDelta
    /\ LET B2 == handleCodexEvent(Bridge,
                   Params(NoId, NoId, X, Msg(TFailed, NoText, <<"rate limited">>)), clock + 1)
       IN /\ B2.streams[R].done
          /\ B2.active = activeStreams \ {R}

\* ---- C10 ---------------------------------------------------------------
\* C10 (as claimed): once the socket of stream A has closed, handling an
\* event whose ids are A's requestId or ids A had learned as aliases writes
\* to no sink, whatever other streams are active.
C10_ClosedStreamEventsDropped ==
  \A A \in RIDs :
    streams[A].resClosed =>
      \A p \in ProbeParams :
        (ProbeFields(p) # {} /\ ProbeFields(p) \subseteq ({A} \cup learned[A])) =>
           \A r \in RIDs :
             handleCodexEvent(Bridge, p, clock + 1).streams[r].res = streams[r].res

\* ---- C11 ---------------------------------------------------------------
\* C11: once a stream's closed flag is set, no step writes to its sink or
\* ends it: events, keepalive ticks, the hard timeout, completeStream, a
\* child exit and the settlement of its tools/call all leave the sink as
\* it was.
C11_NoWriteAfterClosed ==
  [][\A r \in RIDs : streams[r].closed => streams'[r].res = streams[r].res]_vars

\* the client of r went away while its tools/call was pending; the call
\* resolved afterwards, its callback ran, and completeStream was never called
C11_Witness ==
  \E r \in RIDs :
    /\ streams[r].closed /\ streams[r].resClosed /\ ~streams[r].done
    /\ future[r].state = "resolved" /\ future[r].handled
    /\ calls[r] = 0
    /\ ~HasFrame(Writes(r), "finish")

\* ---- C12 ---------------------------------------------------------------
\* what the hard timeout writes to the sink of an active stream
HardTimeoutFrames ==
  contentFrames(chunkString(BridgeErrorText(HardTimeoutMessage), streamChunkChars), "error")
    \o <<FinishChunk("stop"), DoneFrame>>

\* C12: the hard timeout of a stream is armed only while the stream is
\* neither done nor closed; when it fires the stream is active, and the step
\* appends the bridge error "hard timeout after <ms>ms", a finish chunk and
\* [DONE] to the sink, marks the stream done and unregisters it.
C12_HardTimeout ==
  /\ [](\A r \in RIDs :
          (streams[r].done \/ streams[r].closed) => streams[r].hardTimeout # "armed")
  /\ [][\A r \in RIDs :
          (streams[r].hardTimeout = "armed" /\ streams'[r].hardTimeout = "fired") =>
             /\ r \in activeStreams
             /\ streams'[r].res.writes = streams[r].res.writes \o HardTimeoutFrames
             /\ streams'[r].res.ended
             /\ streams'[r].done
             /\ r \notin activeStreams']_vars

\* the hard timeout fired on a stream whose tools/call is still pending
C12_Witness ==
  \E r \in RIDs :
    /\ streams[r].hardTimeout = "fired"
    /\ streams[r].done
    /\ future[r].state = "pending"
    /\ HasFrame(Writes(r), "error")
    /\ EndsWithFinishAndDone(Writes(r))

\* ---- C13 ---------------------------------------------------------------
\* failure event types, with the default text each implies
FailureSamples ==
  { [type |-> TFailed, default |-> <<"upstream response failed">>],
    [type |-> <<"response", "_", "incomplete">>, default |-> <<"upstream response incomplete">>],
    [type |-> <<"task", " ", "failed">>, default |-> <<"upstream response failed">>] }

\* msg.message: absent, blank, or a text
FailureMessages == { NoText, <<" ">>, <<"rate limited">> }

BridgeErrorCount(w) ==
  Cardinality({ i \in 1..Len(w) :
                  /\ w[i].kind = "chunk"
                  /\ w[i].content # NoText
                  /\ InSeq("\n[bridge error] ", w[i].content) })

\* C13: in every reachable state, handling a failure event (type ending in
\* _failed or _incomplete, no error field) addressed to an active stream
\* appends to its sink the bridge error, whose text is msg.message when that
\* is not blank and the default of the type otherwise, then a finish chunk
\* and [DONE]; the sink holds exactly one "[bridge error]", the stream is
\* done and unregistered, and completeStream ran once (the events after the
\* error in the same notification were not processed).
C13_FailureEventTerminates ==
  \A r \in activeStreams : \A f \in FailureSamples : \A message \in FailureMessages :
    LET B2 == handleCodexEvent(Bridge, Params(r, NoId, NoId, Msg(f.type, NoText, message)),
                               clock + 1)
        text == IF message \in {NoText, <<" ">>} THEN f.default ELSE message
        w2 == B2.streams[r].res.writes
    IN /\ w2 = Writes(r)
                 \o contentFrames(chunkString(BridgeErrorText(text), streamChunkChars), "error")
                 \o <<FinishChunk("stop"), DoneFrame>>
       /\ BridgeErrorCount(w2) = 1
       /\ B2.streams[r].done
       /\ r \notin B2.active
       /\ B2.calls[r] = calls[r] + 1

\* a stream that had streamed a delta was ended by response.failed carrying
\* the message "rate limited"
C13_Witness ==
  \E r \in RIDs :
    /\ streams[r].done
    /\ HasFrame(Writes(r), "delta")
    /\ BridgeErrorCount(Writes(r)) = 1
    /\ \E i \in 1..Len(Writes(r)) :
         Writes(r)[i].src = "error" /\ InSeq("rate limited", Writes(r)[i].content)
    /\ EndsWithFinishAndDone(Writes(r))
    /\ calls[r] = 1

\* ---- C14 ---------------------------------------------------------------
\* the data frames of a sink: everything but the SSE comments
DataFrames(w) == SelectSeq(w, LAMBDA f : f.kind # "comment")

\* d is: role chunk, content chunks spelling text, finish chunk "stop", [DONE]
IsFinalTextOnlyOutput(d, text) ==
  LET n == Len(d)
  IN /\ n >= 3
     /\ d[1] = RoleChunk
     /\ \A i \in 2..(n - 2) :
          /\ d[i].kind = "chunk" /\ d[i].role = "" /\ d[i].finish_reason = "null"
          /\ d[i].content # NoText
     /\ Concat([i \in 1..(n - 3) |-> d[i + 1].content]) = text
     /\ d[n - 1] = FinishChunk("stop")
     /\ d[n] = DoneFrame

\* C14: when the callback of a resolved tools/call runs for a stream that is
\* neither done nor closed and has streamed no delta, the sink afterwards
\* holds, comments aside, the role chunk, content chunks whose concatenation
\* is the text extracted from the result, one finish chunk with
\* finish_reason "stop", and [DONE]; what was written before stays.
C14_FinalTextOnly ==
  [][\A r \in RIDs :
       ( /\ future[r].state = "resolved" /\ ~future[r].handled /\ future'[r].handled
         /\ ~streams[r].done /\ ~streams[r].closed
         /\ ~streams[r].hasStreamedDelta ) =>
           /\ IsFinalTextOnlyOutput(DataFrames(streams'[r].res.writes),
                                    extractTextFromToolResult(future[r].result))
           /\ SubSeq(streams'[r].res.writes, 1, Len(streams[r].res.writes))
                = streams[r].res.writes
           /\ streams'[r].res.ended]_vars

\* a tools/call answered with the text "fgh" ended a stream that had
\* streamed nothing: the text went out in two chunks
C14_Witness ==
  \E r \in RIDs :
    /\ future[r].state = "resolved" /\ future[r].handled
    /\ streams[r].done /\ ~streams[r].hasStreamedDelta
    /\ calls[r] = 1
    /\ IsFinalTextOnlyOutput(DataFrames(Writes(r)), <<"f", "g", "h">>)
    /\ Len(DataFrames(Writes(r))) = 5

\* ---- C15 ---------------------------------------------------------------
\* what a streaming request writes when the child cannot be written to
NotRunningFrames ==
  <<ConnectedComment, RoleChunk>>
    \o contentFrames(chunkString(BridgeErrorText(NotRunningMessage), streamChunkChars), "error")
    \o <<FinishChunk("stop"), DoneFrame>>

\* C15: a request that arrives while the child is not running or its stdin
\* is not writable adds no entry to the pending map.  A streaming request
\* gets the role chunk, the bridge error "codex mcp-server not running", a
\* finish chunk and [DONE] in the same step, and ends done, unregistered,
\* with its keepalive and hard timeout cancelled; a non-streaming request
\* gets HTTP 502 with that message.
C15_NotRunning ==
  [][ /\ \A r \in RIDs :
           (~streams[r].started /\ streams'[r].started /\ proc # "running") =>
              /\ streams'[r].res.writes = NotRunningFrames
              /\ streams'[r].res.ended
              /\ streams'[r].done
              /\ r \notin activeStreams'
              /\ streams'[r].keepalive = "cleared"
              /\ streams'[r].hardTimeout = "cleared"
              /\ pending' = pending
              /\ rpcTimer'[r] = "unset"
      /\ \A p \in PlainIds :
           (rpcTimer[p] = "unset" /\ http[p] = NoHttp /\ proc # "running"
              /\ (rpcTimer'[p] # "unset" \/ http'[p] # NoHttp)) =>
              /\ http'[p] = HttpBadGateway(NotRunningMessage)
              /\ pending' = pending
              /\ rpcTimer'[p] = "unset" ]_vars

\* in the back-off window after an exit, a streaming and a non-streaming
\* request were both turned away
C15_Witness ==
  /\ proc = "null" /\ respawnTimer > 0
  /\ pending = {}
  /\ \E r \in RIDs : streams[r].done /\ Writes(r) = NotRunningFrames
  /\ \E p \in PlainIds : http[p] = HttpBadGateway(NotRunningMessage)

\* ---- C16 ---------------------------------------------------------------
\* ids a response line may carry: every RPC id, and one that was never sent
ResponseProbeIds == RpcIds \cup {"unknown"}

\* R2 is Rpc with exactly the entry of id settled (state st, value kept in
\* field), its timeout cancelled and its entry removed
SettlesOnly(R2, id, st, result, err) ==
  /\ R2.future[id].state = st
  /\ R2.future[id].result = result
  /\ R2.future[id].error = err
  /\ R2.future[id].settles = future[id].settles + 1
  /\ R2.rpcTimer[id] = "cleared"
  /\ R2.pending = pending \ {id}
  /\ \A o \in RpcIds \ {id} : R2.future[o] = future[o] /\ R2.rpcTimer[o] = rpcTimer[o]

\* C16: in every reachable state, whatever RPCs are outstanding, a response
\* line carrying id settles the pending RPC with that id and no other
\* (resolved with the result, or rejected with the error object when the
\* line has one), cancels its timeout and removes its entry; a line whose id
\* names no pending entry changes nothing.
C16_ResponseById ==
  \A id \in ResponseProbeIds :
    /\ \A result \in Results :
         LET R2 == onResponse(Rpc, id, FALSE, result, NoError)
         IN IF id \in pending THEN SettlesOnly(R2, id, "resolved", result, NoError)
            ELSE R2 = Rpc
    /\ \A err \in ResponseErrors :
         LET R2 == onResponse(Rpc, id, TRUE, NoResult, err)
         IN IF id \in pending THEN SettlesOnly(R2, id, "rejected", NoResult, err)
            ELSE R2 = Rpc

\* three RPCs were outstanding and the answer to the second came first
C16_Witness ==
  /\ {"r1", "p1"} \subseteq pending
  /\ future["r2"].state = "resolved" /\ future["r2"].result # NoResult
  /\ future["r1"].state = "pending" /\ future["p1"].state = "pending"
  /\ rpcTimer["r2"] = "cleared" /\ rpcTimer["r1"] = "armed" /\ rpcTimer["p1"] = "armed"

\* ---- C17 ---------------------------------------------------------------
\* C17 (as claimed): every RPC whose timeout fired, plain or streaming, was
\* rejected with the message "RPC timeout for <method>".
C17_TimeoutMessageIsMethodOnly ==
  \A id \in RpcIds :
    rpcTimer[id] = "fired" => future[id].error.message = <<"RPC timeout for ", "tools/call">>

\* the message of a timed-out RPC: the streaming call appends its requestId
ExpectedTimeoutMessage(id) ==
  IF id \in RIDs THEN <<"RPC timeout for ", "tools/call", " (requestId=", id, ")">>
  ELSE <<"RPC timeout for ", "tools/call">>

\* C17 (amended): an RPC whose timeout fired is rejected, once and for good
\* (a reply that comes later settles nothing), and its entry is gone from the
\* pending map; the message is "RPC timeout for tools/call" for a plain RPC
\* and "RPC timeout for tools/call (requestId=<id>)" for a streaming one.
\* The step in which the timeout of a streaming request fires appends the
\* bridge error with that message, a finish chunk and [DONE] to a stream that
\* is still active; that of a plain request answers HTTP 502.
C17_RpcTimeout ==
  /\ [](\A id \in RpcIds :
          rpcTimer[id] = "fired" =>
             /\ future[id].state = "rejected"
             /\ future[id].error.message = ExpectedTimeoutMessage(id)
             /\ future[id].settles = 1
             /\ id \notin pending)
  /\ [][\A r \in RIDs :
          (rpcTimer[r] = "armed" /\ rpcTimer'[r] = "fired" /\ r \in activeStreams) =>
             /\ streams'[r].res.writes =
                  streams[r].res.writes
                    \o contentFrames(chunkString(BridgeErrorText(ExpectedTimeoutMessage(r)),
                                                 streamChunkChars), "error")
                    \o <<FinishChunk("stop"), DoneFrame>>
             /\ streams'[r].done
             /\ r \notin activeStreams']_vars
  /\ [][\A p \in PlainIds :
          (rpcTimer[p] = "armed" /\ rpcTimer'[p] = "fired") =>
             http'[p] = HttpBadGateway(ExpectedTimeoutMessage(p))]_vars

\* a streaming and a plain RPC both timed out: the stream ended with the
\* bridge error, the plain request got 502
C17_Witness ==
  /\ \E r \in RIDs :
       /\ rpcTimer[r] = "fired"
       /\ streams[r].done /\ HasFrame(Writes(r), "error")
       /\ EndsWithFinishAndDone(Writes(r))
  /\ \E p \in PlainIds : rpcTimer[p] = "fired" /\ http[p].status = 502

\* ---- C18 ---------------------------------------------------------------
\* 1000, 2000, ..., 8000, 8000, ...
ExpectedDelay(n) == IF n <= 8 THEN 1000 * n ELSE 8000

\* C18: the restart counter changes only when the child exits, and then by
\* exactly one; the step of an exit finds no re-spawn scheduled and
\* schedules one after min(1000 * restarts, 8000) ms; the counter never
\* goes down, and while no child is attached a re-spawn with the delay of
\* the current counter is scheduled.
C18_SupervisedRestart ==
  /\ [][ \/ restarts' = restarts
         \/ /\ restarts' = restarts + 1
            /\ proc # "null" /\ proc' = "null"
            /\ respawnTimer = 0
            /\ respawnTimer' = ExpectedDelay(restarts') ]_vars
  /\ [][(proc # "null" /\ proc' = "null") => restarts' = restarts + 1]_vars
  /\ [](proc = "null" => respawnTimer = ExpectedDelay(restarts))
  /\ [](proc # "null" => respawnTimer = 0)

\* the child has exited at least nine times: the delay stays at the cap
C18_Witness ==
  /\ restarts >= 9
  /\ proc = "null"
  /\ respawnTimer = 8000

\* ---- C19 ---------------------------------------------------------------
\* C19 (as claimed): a spawn error leaves the supervisor where an exit does:
\* whenever no child is attached to the bridge, the handle is cleared and a
\* re-spawn is scheduled.
C19_SpawnErrorLikeExit ==
  proc \notin {"running", "stdinClosed"} => (proc = "null" /\ respawnTimer > 0)

\* ---- C20 ---------------------------------------------------------------
\* C20: in every reachable state, a stream that is done or closed has its
\* keepalive interval and its hard timeout no longer running, is not in the
\* active-stream map, and is the target of no alias; the sink of a done
\* stream has been ended.
C20_TerminalCleanup ==
  \A r \in RIDs :
    (streams[r].done \/ streams[r].closed) =>
       /\ streams[r].keepalive # "on"
       /\ streams[r].hardTimeout # "armed"
       /\ r \notin activeStreams
       /\ \A a \in IdValues : streamAliases[a] # r
       /\ (streams[r].done => streams[r].res.ended)

\* a stream that had learned an alias was ended by a terminal event while
\* another stream was still active
C20_Witness ==
  \E r \in RIDs :
    /\ streams[r].done /\ ~streams[r].closed
    /\ learned[r] # {}
    /\ streams[r].keepalive = "cleared" /\ streams[r].hardTimeout = "cleared"
    /\ activeStreams # {}

\* ---- C21 ---------------------------------------------------------------
\* a step in which the stream of request r took an event
Delivered(r) == clock' = clock + 1 /\ streams'[r].lastEventAt = clock'

\* a step in which the child sent a notification for request a, other than
\* the one it sent before
Sent(a) == upstream'[a].event # upstream[a].event

\* ... and the event carried the same delta text as the event before it
DeliveredAgain(r) ==
  /\ Delivered(r)
  /\ upstream[r].last # EmptyText
  /\ upstream'[r].last = upstream[r].last

\* C21: when the same text delta is delivered to a stream twice in a row
\* (through the same or another delta event type), the second delivery
\* writes no chunk and leaves emittedText unchanged.
C21_DuplicateDeliveryEmitsNothing ==
  [][\A r \in RIDs :
       DeliveredAgain(r) =>
          /\ Writes(r)' = Writes(r)
          /\ streams'[r].emittedText = streams[r].emittedText]_vars

\* ---- C22 ---------------------------------------------------------------
TypeWords ==
  {"response", "completed", "delta", "failed", "text", "message", "item", "agent", "output"}

lowerCased(c) ==
  IF \E w \in TypeWords : toUpperCaseFirst(w) = c
  THEN CHOOSE w \in TypeWords : toUpperCaseFirst(w) = c
  ELSE c

IsSeparatorOrUnderscore(c) == c \in {".", " ", "-", "_"}

\* the type in lower case, with "_" for every run of ".", blanks, "-" and "_"
RECURSIVE underscored(_)
underscored(s) ==
  IF s = <<>> THEN <<>>
  ELSE IF IsSeparatorOrUnderscore(Head(s))
       THEN IF Len(s) > 1 /\ IsSeparatorOrUnderscore(s[2])
            THEN underscored(Tail(s))
            ELSE <<"_">> \o underscored(Tail(s))
       ELSE <<lowerCased(Head(s))>> \o underscored(Tail(s))

\* the type without the blanks at its two ends
RECURSIVE withoutOuterBlanks(_)
withoutOuterBlanks(s) ==
  IF s = <<>> THEN s
  ELSE IF Head(s) = " " THEN withoutOuterBlanks(Tail(s))
  ELSE IF s[Len(s)] = " " THEN withoutOuterBlanks(SubSeq(s, 1, Len(s) - 1))
  ELSE s

\* text-delta: a known delta type, or ..._delta with a text/content segment
ClassifiedTextDelta(c) ==
  \/ c \in streamableTextDeltaTypes
  \/ /\ Len(c) >= 2 /\ c[Len(c)] = "delta" /\ c[Len(c) - 1] = "_"
     /\ \E i \in 1..Len(c) : c[i] \in {"text", "content"}

\* terminal: one of the three listed types, or response_..._completed,
\* ..._incomplete, ..._failed
ClassifiedTerminal(c) ==
  \/ c \in { <<"response", "_", "completed">>, <<"response", "_", "incomplete">>,
             <<"response", "_", "failed">> }
  \/ /\ Len(c) >= 2 /\ c[1] = "response" /\ c[2] = "_"
     /\ c[Len(c)] \in {"completed", "incomplete", "failed"} /\ c[Len(c) - 1] = "_"

Kinds(evs) == {evs[i].kind : i \in 1..Len(evs)}

\* the event just sent for request a and delivered to the stream of r was
\* handled as one of the canonical type c
TypeHandledAs(a, r, c) ==
  LET e == upstream'[a].event
      kinds == Kinds(normalizeCodexEvent(e))
  IN /\ canonicalizeEventType(e.msg.type) = c
     /\ ("text-delta" \in kinds) <=> (Truthy(e.msg.delta) /\ ClassifiedTextDelta(c))
     /\ ("done" \in kinds) <=> ClassifiedTerminal(c)
     /\ IF Truthy(e.msg.delta) /\ ClassifiedTextDelta(c) /\ streams[r].emittedText = EmptyText
        THEN DeltaContent(Writes(r))' = e.msg.delta
        ELSE DeltaContent(Writes(r))' = DeltaContent(Writes(r))
     /\ ClassifiedTerminal(c) => streams'[r].done
     /\ (~ClassifiedTerminal(c) /\ "error" \notin kinds) => ~streams'[r].done

\* C22 (as stated): type strings that differ only in letter case and in
\* having ".", blanks or "-" (or runs of them) where another has "_" have the
\* same canonical form, the lower-case type with one "_" per run, and are
\* classified by it: text-delta iff it is a known delta type or ends with
\* _delta and has a text/content segment, terminal iff it is one of the three
\* listed types or is response_..._completed / _incomplete / _failed.
C22_SpellingsClassifiedAlike ==
  [][\A a \in RIDs, r \in RIDs :
       (Sent(a) /\ Delivered(r)) =>
          TypeHandledAs(a, r, underscored(upstream'[a].event.msg.type))]_vars

\* C22 (amended): the same, for the type without the blanks at its two ends:
\* blanks there are removed, they do not stand for "_".
C22_TrimmedSpellingsClassifiedAlike ==
  [][\A a \in RIDs, r \in RIDs :
       (Sent(a) /\ Delivered(r)) =>
          TypeHandledAs(a, r, underscored(withoutOuterBlanks(upstream'[a].event.msg.type)))]_vars

\* a stream was completed by "Response-_Completed", another spelling of
\* response_completed
C22_Witness ==
  \E r \in RIDs :
    /\ upstream[r].event.msg.type = <<"Response", "-", "_", "Completed">>
    /\ streams[r].done
    /\ EndsWithFinishAndDone(Writes(r))

\* ---- C23 ---------------------------------------------------------------
\* the complete lines of the text s, in order, each without its "\n" and
\* without one "\r" before it
RECURSIVE CompleteLines(_)
CompleteLines(s) ==
  LET ends == {i \in 1..Len(s) : s[i] = "\n"}
  IN IF ends = {} THEN <<>>
     ELSE LET i == CHOOSE e \in ends : \A f \in ends : e <= f
              raw == SubSeq(s, 1, i - 1)
              line == IF raw # <<>> /\ raw[Len(raw)] = "\r"
                      THEN SubSeq(raw, 1, Len(raw) - 1) ELSE raw
          IN <<line>> \o CompleteLines(SubSeq(s, i + 1, Len(s)))

\* the messages of a byte stream: its non-empty complete lines that are JSON
MessagesOf(bytes) ==
  LET ls == SelectSeq(CompleteLines(toStringUtf8(bytes)),
                      LAMBDA l : l # <<>> /\ jsonParse(l).ok)
  IN [i \in 1..Len(ls) |-> jsonParse(ls[i])]

\* C23: the messages decoded so far are those of the bytes read so far, taken
\* as one stream and however they were split into data chunks: every complete
\* line once and in order, without its "\r", empty lines and lines that are not
\* JSON left out; and a chunk that completes no message changes no pending
\* RPC and no stream.
C23_FramingIndependentOfChunks ==
  [][/\ stdout'.decoded = MessagesOf(stdout'.read)
     /\ (stdout'.read # stdout.read /\ stdout'.decoded = stdout.decoded) =>
           UNCHANGED <<pending, rpcTimer, future, streams, activeStreams, streamAliases>>]_vars

\* ---- C24 ---------------------------------------------------------------
\* the frames a step appends to the sink of r
Added(r) == SubSeq(Writes(r)', Len(Writes(r)) + 1, Len(Writes(r)'))

\* the delta.content values, in order, of the chunks with finish_reason null
\* that a code path wrote
ChunksFrom(w, src) ==
  LET fs == SelectSeq(w, LAMBDA f : f.kind = "chunk" /\ f.src = src /\ f.finish_reason = "null")
  IN [i \in 1..Len(fs) |-> fs[i].content]

\* chunks are the content, split for chunk size n
SplitOf(chunks, content, n) ==
  /\ Concat(chunks) = content
  /\ \A i \in 1..Len(chunks) : chunks[i] # EmptyText
  /\ n > 0 => \A i \in 1..Len(chunks) : Len(chunks[i]) <= n
  /\ (n <= 0 \/ n >= Len(content)) => Len(chunks) = 1

\* C24: the content that handleCodexEvent and completeStream write (a
\* coalesced text delta, the bridge-error text, the final text) goes out as
\* consecutive non-empty chunks of at most streamChunkChars characters whose
\* concatenation is the content; with streamChunkChars <= 0, or not smaller
\* than the content, it is a single chunk.
C24_ChunkSplitting ==
  [][\A r \in RIDs :
       LET deltas == ChunksFrom(Added(r), "delta")
           errors == ChunksFrom(Added(r), "error")
           finals == ChunksFrom(Added(r), "final")
       IN /\ streams'[r].emittedText = streams[r].emittedText \o Concat(deltas)
          /\ deltas # <<>> => SplitOf(deltas, Concat(deltas), streamChunkChars)
          /\ errors # <<>> =>
               /\ SplitOf(errors, Concat(errors), streamChunkChars)
               /\ Head(Concat(errors)) = "\n[bridge error] "
               /\ Concat(errors)[Len(Concat(errors))] = "\n"
          /\ finals # <<>> =>
               SplitOf(finals, extractTextFromToolResult(future[r].result), streamChunkChars)
          /\ \A i \in 1..Len(Added(r)) :
               Added(r)[i].kind = "chunk" => Added(r)[i].content # EmptyText]_vars

\* with streamChunkChars = 2 the delta "abc" went out as "ab", "c"
C24_Witness ==
  /\ streamChunkChars = 2
  /\ \E r \in RIDs : ChunksFrom(Writes(r), "delta") = << <<"a", "b">>, <<"c">> >>

\* ---- C25 ---------------------------------------------------------------
\* "Bearer", blanks, key
IsBearerOf(raw, key) ==
  \E k \in 1..Len(raw) : raw = <<"Bearer">> \o [i \in 1..k |-> " "] \o key

\* the request carries the credential the configuration asks for
MatchingCredential(req) ==
  /\ req.header = env.API_KEY_HEADER
  /\ req.value # NoText
  /\ LET raw == withoutOuterBlanks(req.value)
     IN IF env.API_KEY_HEADER = "authorization"
        THEN IsBearerOf(raw, env.API_KEY) \/ (raw = env.API_KEY /\ ~env.REQUIRE_BEARER)
        ELSE raw = env.API_KEY

\* C25: /health is answered 200 whatever the request carries.  With API_KEY
\* set, a request to /v1/models, /v1/embeddings or /v1/chat/completions
\* without the matching credential is answered 401 and starts no RPC,
\* registers no stream and changes no stream; with the credential (with the
\* Authorization header: `Bearer <key>`, or the bare key when REQUIRE_BEARER
\* is off) or without API_KEY it is served, and a chat request registers its
\* stream and sends its RPC.
C25_AuthGating ==
  [][\A q \in QueryIds :
       (http[q] = NoHttp /\ http'[q] # NoHttp) =>
          LET a == http'[q]
              gated == a.route # "/health"
              allowed == env.API_KEY = EmptyText \/ MatchingCredential(a.req)
          IN /\ ~gated => a.status = 200
             /\ (gated /\ ~allowed) =>
                  /\ a.status = 401
                  /\ UNCHANGED <<pending, rpcTimer, future, streams, activeStreams,
                                 streamAliases, calls>>
             /\ (gated /\ allowed) => a.status = 200
             /\ (a.route = "/v1/chat/completions" /\ allowed) =>
                  \E r \in RIDs : /\ r \in activeStreams' \ activeStreams
                                  /\ r \in pending' \ pending]_vars

\* with REQUIRE_BEARER on, a chat request carrying the bare key was answered
\* 401, and no stream and no RPC exists
C25_Witness ==
  /\ env = Env(ApiKey, "authorization", TRUE)
  /\ \E q \in QueryIds :
       http[q] = Unauthorized("/v1/chat/completions", Request("authorization", ApiKey))
  /\ activeStreams = {} /\ pending = {}
  /\ \A r \in RIDs : ~streams[r].started

\* ---- C26 ---------------------------------------------------------------
\* the largest k <= max such that the last k characters of E are the first k
\* characters of I; 0 when there is none
RECURSIVE LargestOverlap(_, _, _)
LargestOverlap(E, I, max) ==
  IF max = 0 THEN 0
  ELSE IF \A i \in 1..max : E[Len(E) - max + i] = I[i] THEN max
  ELSE LargestOverlap(E, I, max - 1)

\* I without its first k characters
Drop(I, k) == [i \in 1..(Len(I) - k) |-> I[k + i]]

\* the four rules, in order
FourRules(E, I) ==
  IF Len(I) <= Len(E) /\ \A i \in 1..Len(I) : E[Len(E) - Len(I) + i] = I[i] THEN <<>>
  ELSE IF Len(E) <= Len(I) /\ \A i \in 1..Len(E) : I[i] = E[i] THEN Drop(I, Len(E))
  ELSE LET k == LargestOverlap(E, I, Min(Len(E), Len(I)))
       IN IF k > 0 THEN Drop(I, k) ELSE I

\* the last n characters of s, taken from its end
RECURSIVE LastChars(_, _)
LastChars(s, n) ==
  IF s = <<>> \/ n <= 0 THEN <<>>
  ELSE LET c == s[Len(s)]
       IN IF charLen(c) <= n
          THEN LastChars(SubSeq(s, 1, Len(s) - 1), n - charLen(c)) \o <<c>>
          ELSE <<"<cut>">>

\* C26: when a stream with emittedText E takes a text delta I (non-empty),
\* the content written is what the four rules give (nothing if E ends with I;
\* else I without E if I starts with E; else I without its first k characters
\* for the largest overlap k; else I), and emittedText becomes E followed by
\* the written content, cut down to its last maxChars characters.
C26_CoalescerFourRules ==
  [][\A r \in RIDs :
       (Delivered(r) /\ upstream'[r].last # EmptyText) =>
          LET E == streams[r].emittedText
              I == upstream'[r].last
              emitted == FourRules(E, I)
          IN /\ Concat(ChunksFrom(Added(r), "delta")) = emitted
             /\ streams'[r].emittedText = LastChars(E \o emitted, maxChars)]_vars

\* an overlap was dropped and the window was cut: after blocks AB the delta
\* BAA added AA, and emittedText holds the last two blocks
C26_Witness ==
  \E r \in RIDs :
    /\ upstream[r].last = <<"B", "A", "A">>
    /\ Concat(ChunksFrom(Writes(r), "delta")) = <<"A", "B", "A", "A">>
    /\ streams[r].emittedText = <<"A", "A">>

\* the larger of two overlaps was dropped: after "aaa" the delta "aab" added "b"
C26_WitnessLargest ==
  \E r \in RIDs :
    /\ upstream[r].last = <<"a", "a", "b">>
    /\ Concat(ChunksFrom(Writes(r), "delta")) = <<"a", "a", "a", "b">>

\* ---- C27 ---------------------------------------------------------------
\* events with any id, or none, in each of their id fields
C27_Events ==
  { Params(m, i, ri, Msg(TDelta, <<"a">>, NoText)) :
      m \in RIDs \cup AliasIds \cup {NoId},
      i \in RIDs \cup AliasIds \cup {NoId},
      ri \in RIDs \cup AliasIds \cup {NoId} }

\* C27 (as claimed): the id fields of an event are all tried against the
\* active streams before any alias target, so an event one of whose fields is
\* the requestId of an active stream resolves to the first such field, also
\* when another field is an alias of another active stream.
C27_FieldsBeforeAliases ==
  \A p \in C27_Events :
    LET fields == IdFields(p)
        direct == {i \in 1..Len(fields) : fields[i] \in activeStreams}
    IN direct # {} =>
         resolveStreamForEvent(Bridge, p).requestId
           = fields[CHOOSE i \in direct : \A j \in direct : i <= j]

\* ---- C28 ---------------------------------------------------------------
\* C28: an alias X that maps to requestId R keeps mapping to R over every
\* step after which R is still registered, whatever stream the step's event
\* resolved to; and no id is ever an alias of itself.
C28_FirstWriteWins ==
  [][\A X \in IdValues :
       /\ (streamAliases[X] # NoId /\ streamAliases[X] \in activeStreams') =>
             streamAliases'[X] = streamAliases[X]
       /\ streamAliases'[X] # X]_vars

\* x is an alias of r1, r2 is active too and has taken an event, and an event
\* of r2 that carries x leaves x with r1
C28_Witness ==
  /\ activeStreams = RIDs
  /\ streamAliases["x"] = "r1"
  /\ streams["r2"].lastEventAt > 0
  /\ LET p == Params("r2", "x", NoId, Msg(TDelta, <<"a">>, NoText))
         B2 == handleCodexEvent(Bridge, p, clock + 1)
     IN /\ resolveStreamForEvent(Bridge, p).requestId = "r2"
        /\ B2.streams["r2"].res # streams["r2"].res
        /\ B2.aliases["x"] = "r1"

\* ---- C29 ---------------------------------------------------------------
\* C29: every alias maps to a registered requestId; and over every step an
\* alias is removed exactly when the stream it maps to is removed from the
\* active-stream map (unregisterStream, completeStream), the aliases of the
\* streams that stay registered being left as they were.
C29_AliasesConsistent ==
  [][\A X \in IdValues :
       /\ streamAliases'[X] # NoId => streamAliases'[X] \in activeStreams'
       /\ streamAliases[X] # NoId =>
            streamAliases'[X] = IF streamAliases[X] \in activeStreams'
                                THEN streamAliases[X] ELSE NoId]_vars

\* r2 had learned the alias x; its client went away while r1 was active, and
\* x is no longer in the table
C29_Witness ==
  /\ activeStreams = {"r1"}
  /\ streams["r2"].closed /\ ~streams["r2"].done
  /\ learned["r2"] = {"x"}
  /\ streamAliases["x"] = NoId

\* ---- C30 ---------------------------------------------------------------
\* a type whose canonical form ends in _failed or _incomplete, and its
\* default text
IsFailureType(type) ==
  /\ type # NoText /\ Len(type) >= 2
  /\ type[Len(type) - 1] \in {".", " ", "-", "_"}
  /\ lowerCased(type[Len(type)]) \in {"failed", "incomplete"}

DefaultOf(type) ==
  IF lowerCased(type[Len(type)]) = "failed" THEN <<"upstream response failed">>
  ELSE <<"upstream response incomplete">>

IsSet(t) == t \notin {NoText, EmptyText}

\* the precedence as claimed: error.message, error, the default of a failure
\* type, msg.message
ClaimedErrorText(type, msg) ==
  IF IsSet(msg.error_message) THEN msg.error_message
  ELSE IF IsSet(msg.error) THEN msg.error
  ELSE IF IsFailureType(type) THEN DefaultOf(type)
  ELSE IF IsSet(msg.message) THEN msg.message
  ELSE EmptyText

\* the precedence of the code: error.message, error, and for a failure type
\* only its non-blank msg.message, then its default
AmendedErrorText(type, msg) ==
  IF IsSet(msg.error_message) THEN msg.error_message
  ELSE IF IsSet(msg.error) THEN msg.error
  ELSE IF ~IsFailureType(type) THEN EmptyText
  ELSE IF IsSet(msg.message) /\ \E i \in 1..Len(msg.message) : msg.message[i] # " "
       THEN msg.message
  ELSE DefaultOf(type)

\* the stream of r took an event and wrote the bridge error `text`, or no
\* bridge error when text is empty
ErrorWritten(r, text) ==
  LET errors == ChunksFrom(Added(r), "error")
  IN IF text = EmptyText THEN errors = <<>>
     ELSE Concat(errors) = BridgeErrorText(text) /\ streams'[r].done

\* C30 (as claimed): the error text of an event is msg.error.message, else
\* msg.error, else the default of a _failed / _incomplete type, else
\* msg.message; the error is written exactly when this text is non-empty.
C30_ErrorTextPrecedence ==
  [][\A a \in RIDs, r \in RIDs :
       (Sent(a) /\ Delivered(r)) =>
         LET msg == upstream'[a].event.msg
         IN ErrorWritten(r, ClaimedErrorText(msg.type, msg))]_vars

\* C30 (amended): the error text of an event is msg.error.message when that
\* is a non-empty string, else msg.error when that is a non-empty string;
\* else, for a _failed / _incomplete type only, its msg.message when that is
\* not blank and the default of the type otherwise; for any other type
\* msg.message is not used and the text is empty.  The error is written
\* exactly when this text is non-empty.
C30_ErrorTextPrecedenceAmended ==
  [][\A a \in RIDs, r \in RIDs :
       (Sent(a) /\ Delivered(r)) =>
         LET msg == upstream'[a].event.msg
         IN ErrorWritten(r, AmendedErrorText(msg.type, msg))]_vars

\* response.failed carrying the message "rate limited" and no error field
\* ended the stream with the bridge error "rate limited"
C30_Witness ==
  \E r \in RIDs :
    /\ upstream[r].event.msg = ErrorMsg(TFailed, NoText, NoText, <<"rate limited">>)
    /\ Concat(ChunksFrom(Writes(r), "error")) = BridgeErrorText(<<"rate limited">>)
    /\ streams[r].done

\* ---- C31 ---------------------------------------------------------------
\* the texts of msg in the order they are tried: delta, text, part.text, and
\* the texts of the parts put together
TextsInOrder(msg) ==
  << msg.delta, msg.text, msg.part_text,
     Concat([i \in 1..Len(msg.parts) |->
               IF msg.parts[i] = NoText THEN EmptyText ELSE msg.parts[i]]) >>

\* the first of them that is a non-empty string, "" when there is none
FirstNonEmpty(msg) ==
  LET ts == TextsInOrder(msg)
      set == {i \in 1..Len(ts) : IsSet(ts[i])}
  IN IF set = {} THEN EmptyText ELSE ts[CHOOSE i \in set : \A j \in set : i <= j]

\* C31 (as claimed): the text of a delta event is the first non-empty one of
\* msg.delta, msg.text, msg.part.text and the joined msg.parts[].text, so an
\* empty msg.delta does not hide a text in another field: the stream writes
\* that text (what of it the coalescer has not emitted yet).
C31_FirstNonEmptyTextWins ==
  [][\A a \in RIDs, r \in RIDs :
       (Sent(a) /\ Delivered(r)) =>
          LET text == FirstNonEmpty(upstream'[a].event.msg)
          IN Concat(ChunksFrom(Added(r), "delta")) =
               IF text = EmptyText THEN EmptyText
               ELSE FourRules(streams[r].emittedText, text)]_vars

\* ---- C32 ---------------------------------------------------------------
\* everything written to the sink of r as delta content
Delivery(r) == Concat(ChunksFrom(Writes(r), "delta"))

\* C32 (as claimed): emittedText is never longer than the window; and a delta
\* I whose overlap with the content delivered so far is shorter than the
\* window, or that is longer than the window and is delivered a second time,
\* adds to the sink only the part of I after that overlap.
C32_WindowKeepsCoalescing ==
  [][\A r \in RIDs :
       /\ length(streams'[r].emittedText) <= maxChars
       /\ (Delivered(r) /\ upstream'[r].last # EmptyText) =>
            LET I == upstream'[r].last
                D == Delivery(r)
                k == LargestOverlap(D, I, Min(Len(D), Len(I)))
                again == upstream[r].last = I /\ length(I) > maxChars
            IN (length(SubSeq(I, 1, k)) < maxChars \/ again) =>
                  Concat(ChunksFrom(Added(r), "delta")) = Drop(I, k)]_vars

\* ---- C33 ---------------------------------------------------------------
\* every delta.content written to the sink of r, whatever wrote it
AllContent(r) ==
  LET fs == SelectSeq(Writes(r), LAMBDA f : f.kind = "chunk" /\ f.content \notin {NoText, EmptyText})
  IN Concat([i \in 1..Len(fs) |-> fs[i].content])

\* C33 (as claimed): emittedText is a suffix of all the content written to
\* the stream's sink, the bridge-error text and the final text included.
C33_EmittedTextIsSuffixOfContent ==
  \A r \in RIDs : endsWith(AllContent(r), streams[r].emittedText)

\* C33 (amended): emittedText is a suffix of the content written for text
\* deltas; while the stream is not done that is all the content on its sink.
\* The bridge-error text and the final text written when the stream ends are
\* not added to emittedText.
C33_EmittedTextIsSuffixOfDeltas ==
  \A r \in RIDs :
    /\ endsWith(Delivery(r), streams[r].emittedText)
    /\ ~streams[r].done => AllContent(r) = Delivery(r)
    /\ streams[r].hasStreamedDelta <=> Delivery(r) # EmptyText

\* a stream that had streamed "abc" in two deltas was ended with a bridge
\* error: emittedText is still "abc"
C33_Witness ==
  \E r \in RIDs :
    /\ streams[r].done
    /\ streams[r].emittedText = <<"a", "b", "c">>
    /\ Len(ChunksFrom(Writes(r), "delta")) >= 2
    /\ ChunksFrom(Writes(r), "error") # <<>>

\* ---- C34 ---------------------------------------------------------------
\* the frames of w written for src
FramesOf(w, src) == SelectSeq(w, LAMBDA f : f.src = src)

\* w is: delta chunks, then bridge-error chunks, then the finish chunk and
\* [DONE], each part present or not
InEventOrder(w) ==
  /\ w = FramesOf(w, "delta") \o FramesOf(w, "error")
           \o SelectSeq(w, LAMBDA f : f.src \notin {"delta", "error"})
  /\ SelectSeq(w, LAMBDA f : f.src \notin {"delta", "error"})
       \in { <<>>, <<FinishChunk("stop"), DoneFrame>> }

\* what the event just sent for a and taken by the stream of r is to write:
\* `text` for its delta, the bridge error `err`, and the end of the stream
WroteInOrder(r, text, err, ends) ==
  /\ InEventOrder(Added(r))
  /\ Concat(ChunksFrom(Added(r), "delta")) = text
  /\ Concat(ChunksFrom(Added(r), "error")) =
       IF err = EmptyText THEN EmptyText ELSE BridgeErrorText(err)
  /\ (FramesOf(Added(r), "finish") # <<>>) <=> ends

\* the sink of r is only ever appended to
AppendOnly(r) == SubSeq(Writes(r)', 1, Len(Writes(r))) = Writes(r)

\* C34 (as claimed): the delta text an event carries is written, then its
\* bridge error, then the finish chunk: also the delta text of an event of
\* a failure or terminal type; and the sink keeps the order of the events.
C34_DeltaThenErrorThenTerminal ==
  [][\A a \in RIDs, r \in RIDs :
       /\ AppendOnly(r)
       /\ (Sent(a) /\ Delivered(r)) =>
            LET msg == upstream'[a].event.msg
                c == underscored(withoutOuterBlanks(msg.type))
                err == AmendedErrorText(msg.type, msg)
                text == IF IsSet(msg.delta) /\ (ClassifiedTextDelta(c) \/ err # EmptyText
                                                  \/ ClassifiedTerminal(c))
                        THEN FourRules(streams[r].emittedText, msg.delta) ELSE EmptyText
            IN WroteInOrder(r, text, err, err # EmptyText \/ ClassifiedTerminal(c))]_vars

\* C34 (amended): an event writes, in this order, the delta text it carries if
\* its type is a text-delta type, then its bridge error, then the finish chunk
\* and [DONE] if it has an error or a terminal type; the delta text of an
\* event of any other type (a failure or terminal type among them) is not
\* written.  The frames of each event follow those of the events read before.
C34_TypedDeltaThenErrorThenTerminal ==
  [][\A a \in RIDs, r \in RIDs :
       /\ AppendOnly(r)
       /\ (Sent(a) /\ Delivered(r)) =>
            LET msg == upstream'[a].event.msg
                c == underscored(withoutOuterBlanks(msg.type))
                err == AmendedErrorText(msg.type, msg)
                text == IF IsSet(msg.delta) /\ ClassifiedTextDelta(c)
                        THEN FourRules(streams[r].emittedText, msg.delta) ELSE EmptyText
            IN WroteInOrder(r, text, err, err # EmptyText \/ ClassifiedTerminal(c))]_vars

\* after the delta "a", an output_text_delta event carrying "abc" and the
\* error "boom" wrote "bc", then the bridge error, the finish chunk and [DONE]
C34_Witness ==
  \E r \in RIDs :
    /\ upstream[r].event.msg = [Msg(TDelta, <<"a", "b", "c">>, NoText) EXCEPT !.error = <<"boom">>]
    /\ DataFrames(Writes(r)) =
         <<RoleChunk, ContentChunk(<<"a">>, "delta"), ContentChunk(<<"b", "c">>, "delta")>>
           \o contentFrames(chunkString(BridgeErrorText(<<"boom">>), streamChunkChars), "error")
           \o <<FinishChunk("stop"), DoneFrame>>

\* ---- C35 ---------------------------------------------------------------
\* the stream of r has ended: it is done with [DONE] written, or closed
Terminated(r) ==
  \/ streams[r].closed
  \/ streams[r].done /\ DoneCount(Writes(r)) = 1

\* C35: with the hard timeout, the RPC timeout and the promise callbacks
\* weakly fair, every registered stream eventually has ended and is out of
\* the registry, whatever the child sends or fails to send.
C35_StreamsTerminate ==
  \A r \in RIDs :
    (r \in activeStreams) ~> (r \notin activeStreams /\ Terminated(r))

\* the child sent no terminal event and no response: the hard timeout ended
\* the stream while its tools/call was still pending
C35_Witness ==
  \E r \in RIDs :
    /\ streams[r].hardTimeout = "fired"
    /\ streams[r].done /\ ~streams[r].closed
    /\ r \notin activeStreams
    /\ future[r].state = "pending"
    /\ clock = 0

\* ---- C36 ---------------------------------------------------------------
\* C36: every stream in the active-stream map was registered by the handler
\* and is neither done nor closed; so when the child exits, failAllStreams
\* skips none of them: each one gets the bridge error and [DONE], and the map
\* is left empty.
C36_RegisteredStreamsAreOpen ==
  [][/\ \A r \in activeStreams' :
          streams'[r].started /\ ~streams'[r].done /\ ~streams'[r].closed
     /\ (proc # "null" /\ proc' = "null") =>
          /\ activeStreams' = {}
          /\ \A r \in activeStreams :
               /\ streams'[r].done /\ streams'[r].closed
               /\ ChunksFrom(Added(r), "error") = <<>>
               /\ \E i \in 1..Len(Added(r)) :
                    Added(r)[i].src = "error" /\ Added(r)[i].finish_reason = "stop"
               /\ Added(r)[Len(Added(r))] = DoneFrame]_vars

\* the client of r1 went away, then the child exited and r2, the one stream
\* left in the map, was failed
C36_Witness ==
  /\ proc = "null"
  /\ activeStreams = {}
  /\ streams["r1"].closed /\ ~streams["r1"].done
  /\ streams["r2"].closed /\ streams["r2"].done
  /\ DoneCount(Writes("r2")) = 1 /\ DoneCount(Writes("r1")) = 0


\* ------------------------------------------- the children of the supervisor
\* "exit" and "error" events in every order.  Node emits "error" for a child
\* that could not be spawned and may emit it for one that lives; "exit" may
\* or may not follow an "error".
ChildError ==
  /\ proc \in {"running", "stdinClosed"}
  /\ ErrorHandler(SpawnErrorMessage)
  /\ children' = childErrored(children)
  /\ UNCHANGED <<proc, respawnTimer, steps>>

ExitAfterError(st) ==
  /\ proc = "failed"
  /\ restarts < MaxSupervisorRestarts
  /\ ExitHandler(st)
  /\ children' = childExited(children, FALSE)
  /\ UNCHANGED steps

SpawnFails == HandleRespawnFails /\ UNCHANGED steps

NextChildren ==
  \/ \E r \in RIDs : PostStreaming(r)
  \/ \E r \in RIDs : ClientClose(r)
  \/ \E st \in ExitStatuses : SupervisorExit(st)
  \/ SupervisorRespawn
  \/ SpawnFails
  \/ ChildError
  \/ \E st \in ExitStatuses : ExitAfterError(st)

SpecChildren == Init /\ [][NextChildren]_vars

\* C37: at any time at most one child process lives and at most one start()
\* timer is pending, and start() is never invoked while a child lives,
\* whatever the order of the "exit" and "error" events
C37_OneChildOneTimer ==
  /\ children.live <= 1
  /\ children.timers <= 1
  /\ ~children.overlapped
  /\ (children.live = 1) = (proc \in {"running", "stdinClosed"})
  /\ (children.timers = 1) = (respawnTimer > 0)

\* a spawn failed after the child had exited twice
C37_Witness == proc = "failed" /\ restarts >= 2 /\ children.timers = 0


\* ------------------------------------ the stdout of one child after another
\* Every child has a pipe of its own and start() attaches onStdout to each
\* (line 130); CodexMcpBridge.buffer is one field, which the exit handler and
\* start() leave as it is.  The bytes of the pipes are read in the order the
\* children wrote them.
RestartLines(ids) ==
  { <<ResponseHead, id, ResponseTail, "\r", "\n">> : id \in ids } \cup { <<"null", "\n">> }

\* the child writes a complete line
LineWritten(line) ==
  /\ proc \in {"running", "stdinClosed"}
  /\ ~children.midLine
  /\ stdout.lines < MaxLines
  /\ line \in RestartLines(SentIds)
  /\ stdout' = [stdout EXCEPT !.pipe = @ \o line, !.lines = @ + 1]
  /\ children' = [children EXCEPT !.wrote = @ \o line]
  /\ UNCHANGED <<proc, restarts, respawnTimer, pending, rpcTimer, future, streams,
                 activeStreams, streamAliases, streamChunkChars, env, clock, used, steps,
                 calls, learned, upstream, http>>

\* the child writes the first k bytes of a line, and not yet its end
LineBegun(line, k) ==
  /\ proc \in {"running", "stdinClosed"}
  /\ ~children.midLine
  /\ stdout.lines < MaxLines
  /\ line \in RestartLines(SentIds)
  /\ k \in 1..(Len(line) - 1)
  /\ line[k] # "\n"
  /\ stdout' = [stdout EXCEPT !.pipe = @ \o SubSeq(line, 1, k), !.lines = @ + 1]
  /\ children' = [children EXCEPT !.midLine = TRUE]
  /\ UNCHANGED <<proc, restarts, respawnTimer, pending, rpcTimer, future, streams,
                 activeStreams, streamAliases, streamChunkChars, env, clock, used, steps,
                 calls, learned, upstream, http>>

RestartExit(st) ==
  /\ restarts < MaxRestarts
  /\ HandleExit(st)
  /\ UNCHANGED steps

\* the timer fires (after 1000 ms at least) when the pipe of the child that
\* exited has been read to its end
RestartRespawn ==
  /\ stdout.pipe = <<>>
  /\ HandleRespawn
  /\ UNCHANGED steps

NextRestart ==
  \/ \E r \in RIDs : PostStreaming(r)
  \/ ToolsCallSettled
  \/ \E line \in RestartLines(RIDs) : LineWritten(line)
  \/ \E line \in RestartLines(RIDs) : \E k \in 1..MaxChunkLen : LineBegun(line, k)
  \/ \E n \in 1..MaxChunkLen : StdoutData(n)
  \/ \E st \in ExitStatuses : RestartExit(st)
  \/ RestartRespawn

SpecRestart == Init /\ [][NextRestart]_vars

\* C38: after a child exit and re-spawn, the lines written by the new child
\* are decoded exactly as written, whatever incomplete line the previous
\* child left in the read buffer: once everything the new child wrote has
\* been read, the messages decoded last are the messages of its lines
C38_NewChildDecodedAsWritten ==
  (/\ restarts >= 1
   /\ proc \in {"running", "stdinClosed"}
   /\ ~children.midLine
   /\ stdout.pipe = <<>>)
  => endsWith(stdout.decoded, MessagesOf(children.wrote))


\* ---- C39 ---------------------------------------------------------------
\* w holds exactly one chunk with a finish_reason, which is "stop"; that chunk
\* is the last frame before [DONE], and [DONE] is the last frame
OneFinishThenDone(w) ==
  /\ EndsWithFinishAndDone(w)
  /\ FinishCount(w) = 1
  /\ DoneCount(w) = 1
  /\ \A i \in 1..(Len(w) - 2) : w[i].kind = "chunk" => w[i].finish_reason = "null"

\* C39: every stream the bridge has terminated, by completeStream or by
\* failAllStreams on a child exit, carries exactly one chunk with a non-null
\* finish_reason, "stop"; it is the last data frame before [DONE], and every
\* chunk before it has finish_reason null
C39_OneFinishChunkLast ==
  \A r \in RIDs : streams[r].done => OneFinishThenDone(Writes(r))

\* one stream was completed by completeStream after content was written,
\* another was failed by the child's exit
C39_Witness ==
  \E r, q \in RIDs :
    /\ streams[r].done /\ streams[q].done
    /\ \E st \in ExitStatuses : Writes(r)[Len(Writes(r)) - 1] = ExitErrorChunk(st)
    /\ Writes(q)[Len(Writes(q)) - 1] = FinishChunk("stop")
    /\ \E i \in 1..Len(Writes(q)) : Writes(q)[i].kind = "chunk" /\ Writes(q)[i].content # NoText
                                     /\ Writes(q)[i].role = ""


\* ---- C40 ---------------------------------------------------------------
\* a text delta, a terminal event and a failure, addressed to r by
\* params._meta.requestId, with any id, or none, in their other id fields
C40_Msgs ==
  { Msg(TDelta, <<"a">>, NoText), Msg(TCompleted, NoText, NoText),
    Msg(TFailed, NoText, <<"rate limited">>) }

C40_Events(r) ==
  { Params(r, i, ri, msg) : i \in ProbeIds, ri \in ProbeIds, msg \in C40_Msgs }

\* C40: an event whose params._meta.requestId is the requestId of an active
\* stream is delivered to that stream and only to it, whatever its other id
\* fields and whatever the alias table holds: handling it leaves every other
\* stream (emittedText, hasStreamedDelta, done, the sink and the rest) as it was
C40_AddressedEventsAreIsolated ==
  \A r \in activeStreams : \A p \in C40_Events(r) :
    LET after == handleCodexEvent(Bridge, p, clock + 1).streams
    IN /\ resolveStreamForEvent(Bridge, p) = [requestId |-> r, usedFallback |-> FALSE]
       /\ after[r].lastEventAt = clock + 1
       /\ after = [streams EXCEPT ![r] = after[r]]

\* r1 and r2 are active, "x" and "r1" are aliases of r2, r2 has content in
\* its sink, and a delta addressed to r1 that also names x and r2 is written
\* to r1
C40_Witness ==
  /\ activeStreams = RIDs
  /\ streamAliases["x"] = "r2"
  /\ streamAliases["r1"] = "r2"
  /\ streams["r2"].emittedText # EmptyText
  /\ LET p == Params("r1", "x", "r2", Msg(TDelta, <<"a">>, NoText))
         B2 == handleCodexEvent(Bridge, p, clock + 1)
     IN /\ B2.streams["r1"].emittedText = streams["r1"].emittedText \o <<"a">>
        /\ B2.streams["r2"] = streams["r2"]

====
